---------------------------- MODULE Spec2Model ----------------------------
(***************************************************************************)
(* Critique of Artificial Reason (CAR): the four Kantian layers            *)
(* (layers.ts), the pipeline with its boundary check (pipeline.ts) and     *)
(* the beforeRun hook of the extension (car-extension.ts).                 *)
(*                                                                         *)
(* JavaScript values are tagged records, so that `undefined`, `null`,      *)
(* numbers, strings and objects stay distinguishable and a property read   *)
(* on null/undefined or a method call on a non-string can raise the        *)
(* TypeError the engine raises.  Confidence and thresholds are exact       *)
(* hundredths (1.0 is 100): the model does not reproduce binary floating   *)
(* point rounding.                                                         *)
(***************************************************************************)
EXTENDS Integers, Sequences, FiniteSets, TLC

VARIABLES
    pc,                 \* position of the caller: idle, a pipeline stage, returned, failed, done
    entry,              \* the exported entry point that was called
    now,                \* the clock read by Date.now()
    rawInput,           \* carPipeline's rawInput
    context,            \* carPipeline's context
    confidenceThreshold,\* option of car() / argument of checkEpistemicBoundaries
    enableDeferral,     \* option of car()
    sensibilityOutput,  \* result of sensibilityLayer
    understandingOutput,\* result of understandingLayer (input of reasonLayer)
    reasonOutput,       \* result of reasonLayer (input of critiqueLayer)
    critiqueOutput,     \* result of critiqueLayer / carPipeline
    humilityCheck,      \* result of checkEpistemicBoundaries(output, threshold)
    error,              \* message of the error raised, "" when none
    car,                \* context.car as written by beforeRun
    blockchainAction,   \* argument of evaluateBlockchainAction
    verdict,            \* outcome of evaluateBlockchainAction
    pipelineOptions,    \* the options of carPipeline that beforeRun passes on
    startTime,          \* carPipeline's startTime
    warned,             \* carPipeline has warned that the processing time was exceeded
    calls,              \* concurrent invocations of carPipeline: position and values of each
    heap,               \* the raw inputs and the context the concurrent invocations were given
    supplied,           \* the heap as the caller supplied it
    afterRunResult      \* what afterRun returned or raised

vars == <<pc, entry, now, rawInput, context, confidenceThreshold, enableDeferral,
          sensibilityOutput, understandingOutput, reasonOutput, critiqueOutput,
          humilityCheck, error, car, blockchainAction, verdict,
          pipelineOptions, startTime, warned, calls, heap, supplied, afterRunResult>>

\* The variable of the afterRun hook.
hookVars == <<afterRunResult>>

\* The variables of a call of evaluateBlockchainAction.
evaluatorVars == <<blockchainAction, verdict>>

\* The variables of carPipeline's options and of its processing time.
optionVars == <<pipelineOptions, startTime, warned>>

\* The variables of the concurrent invocations.
concurrentVars == <<calls, heap, supplied>>

(***************************************************************************)
(* JavaScript values                                                       *)
(***************************************************************************)
Undefined == [t |-> "undefined"]
Null == [t |-> "null"]
Str(s) == [t |-> "string", s |-> s]
Num(n) == [t |-> "number", n |-> n]
Bool(b) == [t |-> "boolean", b |-> b]
Obj(f) == [t |-> "object", f |-> f]
Arr(a) == [t |-> "array", a |-> a]

\* A variable that holds no value yet.
None == [t |-> "none"]

IsNullish(v) == v.t \in {"undefined", "null"}

\* ToBoolean
Truthy(v) ==
    CASE v.t = "undefined" -> FALSE
      [] v.t = "null" -> FALSE
      [] v.t = "string" -> v.s # ""
      [] v.t = "number" -> v.n # 0
      [] v.t = "boolean" -> v.b
      [] OTHER -> TRUE

\* v.k for a v that is not null/undefined (a primitive has none of the
\* properties read here; `length` is read through Length).
Get(v, k) == IF v.t = "object" /\ k \in DOMAIN v.f THEN v.f[k] ELSE Undefined

\* a || b
Or(a, b) == IF Truthy(a) THEN a ELSE b

\* v > n and v < n for a number literal n: undefined converts to NaN, and
\* every comparison with NaN is false.  Only numbers and undefined occur.
Gt(v, n) == v.t = "number" /\ v.n > n
Lt(v, n) == v.t = "number" /\ v.n < n

\* v.length: defined on strings and arrays, undefined elsewhere.
Length(v) ==
    CASE v.t = "string" -> Num(Len(v.s))
      [] v.t = "array" -> Num(Len(v.a))
      [] OTHER -> Undefined

\* String.prototype.includes
Includes(s, w) ==
    \E i \in 1..(Len(s) - Len(w) + 1) : SubSeq(s, i, i + Len(w) - 1) = w

\* String.prototype.startsWith
StartsWith(s, w) == Len(s) >= Len(w) /\ SubSeq(s, 1, Len(w)) = w

UpperCase == {"A", "B", "C", "D", "E", "F", "G", "H", "I", "J", "K", "L", "M",
              "N", "O", "P", "Q", "R", "S", "T", "U", "V", "W", "X", "Y", "Z"}

LowerOf(c) ==
    CASE c = "A" -> "a" [] c = "B" -> "b" [] c = "C" -> "c" [] c = "D" -> "d"
      [] c = "E" -> "e" [] c = "F" -> "f" [] c = "G" -> "g" [] c = "H" -> "h"
      [] c = "I" -> "i" [] c = "J" -> "j" [] c = "K" -> "k" [] c = "L" -> "l"
      [] c = "M" -> "m" [] c = "N" -> "n" [] c = "O" -> "o" [] c = "P" -> "p"
      [] c = "Q" -> "q" [] c = "R" -> "r" [] c = "S" -> "s" [] c = "T" -> "t"
      [] c = "U" -> "u" [] c = "V" -> "v" [] c = "W" -> "w" [] c = "X" -> "x"
      [] c = "Y" -> "y" [] c = "Z" -> "z" [] OTHER -> c

\* String.prototype.toLowerCase
RECURSIVE toLowerCase(_)
toLowerCase(s) ==
    IF Len(s) = 0 THEN ""
    ELSE IF Len(s) = 1 THEN LowerOf(s)
    ELSE toLowerCase(SubSeq(s, 1, Len(s) \div 2))
            \o toLowerCase(SubSeq(s, Len(s) \div 2 + 1, Len(s)))

\* The outcome of a call: a value, or the error it raised.
Return(v) == [threw |-> FALSE, value |-> v]
Throw(m) == [threw |-> TRUE, message |-> m]

(***************************************************************************)
(* layers.ts: helper functions                                             *)
(***************************************************************************)

\* The message of the TypeError raised by reading property k of null/undefined.
CannotRead(v, k) ==
    Throw("Cannot read properties of " \o v.t \o " (reading '" \o k \o "')")

\* Detect the type of data based on its structure.  `data.hash` on null or
\* undefined raises.
detectDataType(data) ==
    IF IsNullish(data) THEN CannotRead(data, "hash")
    ELSE IF Truthy(Get(data, "hash")) /\ Truthy(Get(data, "from")) /\ Truthy(Get(data, "to"))
        THEN Return("transaction")
    ELSE IF Truthy(Get(data, "content")) \/ Truthy(Get(data, "message"))
        THEN Return("message")
    ELSE IF Truthy(Get(data, "event")) THEN Return("event")
    ELSE IF Get(data, "inputType") = Str("user") THEN Return("userInput")
    ELSE Return("unknown")

\* chainMap[data.chainId]; chain ids are strings here.
chainMap(id) ==
    CASE id = Str("1") -> Str("Ethereum")
      [] id = Str("42161") -> Str("Arbitrum")
      [] id = Str("10") -> Str("Optimism")
      [] id = Str("56") -> Str("BSC")
      [] OTHER -> Undefined

\* Detect the source of the data; called on data that is not null/undefined.
detectSource(data) ==
    IF Truthy(Get(data, "chainId"))
    THEN Or(chainMap(Get(data, "chainId")), Str("Chain-" \o Get(data, "chainId").s))
    ELSE Or(Get(data, "source"), Str("unknown"))

\* context?.k
OptGet(ctx, k) == IF IsNullish(ctx) THEN Undefined ELSE Get(ctx, k)

\* { ...data }: the own properties of an object; a number or boolean has none.
Spread(data) == IF data.t = "object" THEN data.f ELSE <<>>

\* Structure the raw data based on its type and context; t is Date.now().
structureData(data, type, ctx, t) ==
    CASE type = "transaction" ->
            Obj([hash |-> Get(data, "hash"),
                 from |-> Get(data, "from"),
                 to |-> Get(data, "to"),
                 value |-> Or(Get(data, "value"), Num(0)),
                 data |-> Or(Get(data, "data"), Str("")),
                 gas |-> Get(data, "gas"),
                 chainId |-> Get(data, "chainId"),
                 previousTxs |-> Or(OptGet(ctx, "previousTransactions"), Arr(<<>>))])
      [] type = "message" ->
            Obj([content |-> Or(Get(data, "content"), Get(data, "message")),
                 sender |-> Or(Get(data, "sender"), Get(data, "from")),
                 timestamp |-> Or(Get(data, "timestamp"), Num(t)),
                 conversationHistory |-> Or(OptGet(ctx, "conversationHistory"), Arr(<<>>))])
      [] type = "event" ->
            Obj([eventName |-> Get(data, "event"),
                 parameters |-> Or(Get(data, "parameters"), Obj(<<>>)),
                 blockNumber |-> Get(data, "blockNumber"),
                 transactionHash |-> Get(data, "transactionHash")])
      [] type = "userInput" ->
            Obj([input |-> Get(data, "input"),
                 type |-> Get(data, "inputType"),
                 timestamp |-> Or(Get(data, "timestamp"), Num(t))])
      [] OTHER -> Obj(Spread(data))

\* Categorize transaction based on its properties.
categorizeTransaction(tx) ==
    IF ~Truthy(Get(tx, "to")) THEN "contract-deployment"
    ELSE IF Truthy(Get(tx, "data")) /\ Gt(Length(Get(tx, "data")), 2)
        THEN LET signature == SubSeq(Get(tx, "data").s, 1, 10)
             IN IF signature = "0xa9059cbb" THEN "ERC20-transfer"
                ELSE IF signature = "0x23b872dd" THEN "ERC20-transferFrom"
                ELSE "unknown-contract-interaction"
    ELSE "value-transfer"

\* assessRisk with the thresholds included: value >= 1000, length >= 1000.
assessRiskFromThousand(tx) ==
    IF \/ Gt(Get(tx, "value"), 999)
       \/ ~Truthy(Get(tx, "to"))
       \/ Gt(Length(Get(tx, "data")), 999)
    THEN "high" ELSE "low"

\* Assess risk level of a transaction.
assessRisk(tx) ==
    IF \/ Gt(Get(tx, "value"), 1000)
       \/ ~Truthy(Get(tx, "to"))
       \/ Gt(Length(Get(tx, "data")), 1000)
    THEN "high" ELSE "low"

\* message.content.toLowerCase(): raises unless content is a string.
LowerContent(message) ==
    LET c == Get(message, "content")
    IN IF IsNullish(c) THEN CannotRead(c, "toLowerCase")
       ELSE IF c.t # "string" THEN Throw("message.content.toLowerCase is not a function")
       ELSE Return(toLowerCase(c.s))

\* Detect intent from message content (content already lower-cased).
detectIntent(content) ==
    IF Includes(content, "buy") \/ Includes(content, "purchase") THEN "purchase-intent"
    ELSE IF Includes(content, "sell") \/ Includes(content, "trade") THEN "sell-intent"
    ELSE IF Includes(content, "help") \/ Includes(content, "?") THEN "question"
    ELSE IF Includes(content, "hello") \/ Includes(content, "hi") THEN "greeting"
    ELSE "statement"

\* Analyze sentiment of message content (content already lower-cased).
analyzeSentiment(content) ==
    LET positive == Cardinality({w \in {"good", "great", "excellent", "thanks", "happy"} :
                                    Includes(content, w)})
        negative == Cardinality({w \in {"bad", "poor", "terrible", "fail", "sad"} :
                                    Includes(content, w)})
    IN IF positive > negative THEN "positive"
       ELSE IF negative > positive THEN "negative"
       ELSE "neutral"

\* Categorize blockchain events.
categorizeEvent(event) ==
    IF Get(event, "eventName") = Str("Transfer") THEN "token-transfer"
    ELSE IF Get(event, "eventName") = Str("Approval") THEN "token-approval"
    ELSE "generic-event"

\* A response that repeats the content of the message.
generateContextualResponseEcho(data) ==
    IF Get(data, "content").t = "string" THEN Get(data, "content").s ELSE ""

\* Generate a contextual response based on message data.
generateContextualResponse(data) ==
    IF Get(data, "intent") = Str("greeting")
        THEN "Hello! How can I assist you with blockchain or AI tasks?"
    ELSE IF Get(data, "intent") = Str("question")
        THEN "Let me look that up for you. I'll respond shortly."
    ELSE IF Get(data, "intent") = Str("purchase-intent")
        THEN "I can assist with blockchain transactions. Please provide more details."
    ELSE "Thank you for your message. I'll process it accordingly."

(***************************************************************************)
(* layers.ts: the ethical evaluator and the epistemic checker              *)
(***************************************************************************)

\* action.params.content.includes(w): raises unless content is a string
\* (array contents are not modelled).
ContentIncludes(action, w) ==
    LET c == Get(action.params, "content")
    IN IF IsNullish(c) THEN CannotRead(c, "includes")
       ELSE IF c.t # "string" THEN Throw("action.params.content.includes is not a function")
       ELSE Return(Includes(c.s, w))

Passes(r) == [threw |-> FALSE, passes |-> TRUE, reason |-> r]
Fails(r) == [threw |-> FALSE, passes |-> FALSE, reason |-> r]

\* Universalizability test.
universalizabilityTest(action) ==
    IF action.action = "executeTransaction" /\ Lt(Get(action.params, "value"), 0)
        THEN Fails("A system where transactions take value without consent would collapse")
    ELSE IF action.action = "respondToMessage"
        THEN LET inc == ContentIncludes(action, "mislead")
             IN IF inc.threw THEN inc
                ELSE IF inc.value
                    THEN Fails("A system where AI agents mislead users cannot be universalized")
                ELSE Passes("Action can be universalized")
    ELSE Passes("Action can be universalized")

\* Humanity as end test.
humanityAsEndTest(action) ==
    IF action.action = "executeTransaction" /\ Truthy(Get(action.params, "force"))
        THEN Fails("Forcing transactions without consent treats users as means")
    ELSE IF action.action = "respondToMessage"
        THEN LET inc == ContentIncludes(action, "manipulate")
             IN IF inc.threw THEN inc
                ELSE IF inc.value
                    THEN Fails("Manipulative responses treat users as means to an end")
                ELSE Passes("Action respects humanity as an end")
    ELSE Passes("Action respects humanity as an end")

\* kingdomOfEndsTest without the comparison of `to` with the flagged address.
kingdomOfEndsTestNoScamCheck(action) ==
    IF action.action = "respondToMessage"
        THEN LET inc == ContentIncludes(action, "hate speech")
             IN IF inc.threw THEN inc
                ELSE IF inc.value
                    THEN Fails("Hate speech is incompatible with a kingdom of ends")
                ELSE Passes("Action is compatible with a moral community")
    ELSE Passes("Action is compatible with a moral community")

\* kingdomOfEndsTest with the recipient checked as checkAddress checks it:
\* the two listed addresses and the 0x000 prefix.
kingdomOfEndsTestListedAddresses(action) ==
    IF /\ action.action = "executeTransaction"
       /\ Get(action.params, "to").t = "string"
       /\ \/ Get(action.params, "to").s \in {"0xknownScamAddress", "0xanotherScam"}
          \/ StartsWith(Get(action.params, "to").s, "0x000")
        THEN Fails("Supporting scams is incompatible with a moral community")
    ELSE IF action.action = "respondToMessage"
        THEN LET inc == ContentIncludes(action, "hate speech")
             IN IF inc.threw THEN inc
                ELSE IF inc.value
                    THEN Fails("Hate speech is incompatible with a kingdom of ends")
                ELSE Passes("Action is compatible with a moral community")
    ELSE Passes("Action is compatible with a moral community")

\* Kingdom of ends test.
kingdomOfEndsTest(action) ==
    IF action.action = "executeTransaction"
       /\ Get(action.params, "to") = Str("0xknownScamAddress")
        THEN Fails("Supporting scams is incompatible with a moral community")
    ELSE IF action.action = "respondToMessage"
        THEN LET inc == ContentIncludes(action, "hate speech")
             IN IF inc.threw THEN inc
                ELSE IF inc.value
                    THEN Fails("Hate speech is incompatible with a kingdom of ends")
                ELSE Passes("Action is compatible with a moral community")
    ELSE Passes("Action is compatible with a moral community")

Approved(r) == [threw |-> FALSE, approved |-> TRUE, reason |-> r]
Rejected(r) == [threw |-> FALSE, approved |-> FALSE, reason |-> r]

\* Apply Kant's categorical imperative to evaluate an action.
categoricalImperative(action) ==
    LET universalTest == universalizabilityTest(action)
        humanityTest == humanityAsEndTest(action)
        kingdomTest == kingdomOfEndsTest(action)
    IN IF universalTest.threw THEN universalTest
       ELSE IF ~universalTest.passes
           THEN Rejected("Fails universalizability: " \o universalTest.reason)
       ELSE IF humanityTest.threw THEN humanityTest
       ELSE IF ~humanityTest.passes
           THEN Rejected("Fails humanity as end: " \o humanityTest.reason)
       ELSE IF kingdomTest.threw THEN kingdomTest
       ELSE IF ~kingdomTest.passes
           THEN Rejected("Fails kingdom of ends: " \o kingdomTest.reason)
       ELSE Approved("Action passes all three formulations of the categorical imperative")

\* layers.ts checkEpistemicBoundaries(action): does an action exceed the
\* epistemic boundaries?  (pipeline.ts has a function of the same name on
\* critique outputs, modelled as checkEpistemicBoundaries below.)
checkActionBoundaries(action) ==
    IF action.action = "executeTransaction" /\ Gt(Get(action.params, "value"), 1000)
        THEN [threw |-> FALSE, uncertain |-> TRUE,
              reason |-> "High-value transactions exceed confidence boundaries"]
    ELSE IF action.action = "respondToMessage"
        THEN LET c == Get(action.params, "content")
             IN IF IsNullish(c) THEN CannotRead(c, "length")
                ELSE IF Gt(Length(c), 500)
                    THEN [threw |-> FALSE, uncertain |-> TRUE,
                          reason |-> "Long responses may exceed knowledge boundaries"]
                ELSE [threw |-> FALSE, uncertain |-> FALSE, reason |-> ""]
    ELSE [threw |-> FALSE, uncertain |-> FALSE, reason |-> ""]

\* Confidence in hundredths.
FullConfidence == 100
RejectedPenalty == 20
UncertaintyPenalty == 10
HighValuePenalty == 10

Max(a, b) == IF a >= b THEN a ELSE b

IsHighValueExecute(action) ==
    action.action = "executeTransaction" /\ Gt(Get(action.params, "value"), 1000)

\* calculateConfidence without Math.max(0, ...).
calculateConfidenceNoFloor(approved, rejected, uncertainties) ==
    FullConfidence - RejectedPenalty * Len(rejected)
        - UncertaintyPenalty * Len(uncertainties)
        - HighValuePenalty
            * Cardinality({i \in 1..Len(approved) : IsHighValueExecute(approved[i])})

\* calculateConfidence without the forEach over the approved actions.
calculateConfidenceNoHighValue(approved, rejected, uncertainties) ==
    Max(0, FullConfidence - RejectedPenalty * Len(rejected)
               - UncertaintyPenalty * Len(uncertainties))

\* Calculate confidence based on approved/rejected actions and uncertainties.
calculateConfidence(approved, rejected, uncertainties) ==
    LET c1 == IF Len(rejected) > 0
              THEN FullConfidence - RejectedPenalty * Len(rejected)
              ELSE FullConfidence
        c2 == IF Len(uncertainties) > 0
              THEN c1 - UncertaintyPenalty * Len(uncertainties)
              ELSE c1
        c3 == c2 - HighValuePenalty
                     * Cardinality({i \in 1..Len(approved) : IsHighValueExecute(approved[i])})
    IN Max(0, c3)

(***************************************************************************)
(* layers.ts: the four layers                                              *)
(***************************************************************************)

\* Sensibility Layer.  t1 is the clock read inside structureData, t2 the
\* clock read for metadata.timestamp.
sensibilityLayer(input, t1, t2) ==
    LET dataType == detectDataType(input.rawData)
    IN IF dataType.threw THEN dataType
       ELSE Return([categorizedData |->
                        structureData(input.rawData, dataType.value, input.context, t1),
                    metadata |-> [dataType |-> dataType.value,
                                  source |-> detectSource(input.rawData),
                                  timestamp |-> t2]])

\* The derived properties alone: { ...b } without the spread of a.
AssignDerivedOnly(a, b) == b

\* { ...a, ...b } on property maps: b's properties win.
Assign(a, b) == b @@ a

\* Understanding Layer.
understandingLayer(input) ==
    LET cd == input.categorizedData
    IN IF input.metadata.dataType = "transaction"
           THEN Return([input EXCEPT !.categorizedData =
                    Obj(Assign(cd.f, [transactionType |-> Str(categorizeTransaction(cd)),
                                      risk |-> Str(assessRisk(cd))]))])
       ELSE IF input.metadata.dataType = "message"
           THEN LET content == LowerContent(cd)
                IN IF content.threw THEN content
                   ELSE Return([input EXCEPT !.categorizedData =
                            Obj(Assign(cd.f, [intent |-> Str(detectIntent(content.value)),
                                              sentiment |-> Str(analyzeSentiment(content.value))]))])
       ELSE IF input.metadata.dataType = "event"
           THEN Return([input EXCEPT !.categorizedData =
                    Obj(Assign(cd.f, [eventCategory |-> Str(categorizeEvent(cd))]))])
       ELSE Return([input EXCEPT !.categorizedData = Obj(cd.f)])

Action(name, params, justification) ==
    [action |-> name, params |-> Obj(params), justification |-> justification]

\* input.categorizedData.value >= 0 in place of > 0.
ValueIsNotNegative(cd) == Get(cd, "value").t = "number" /\ Get(cd, "value").n >= 0

\* input.categorizedData.value > 0
ValueIsPositive(cd) == Gt(Get(cd, "value"), 0)

\* input.categorizedData.risk === "high"
RiskIsHigh(cd) == Get(cd, "risk") = Str("high")

\* The transaction branch with executeTransaction pushed before verifyRecipient.
ReasonTransactionExecuteFirst(cd) ==
    [proposedActions |->
        (IF ValueIsPositive(cd)
         THEN <<Action("executeTransaction",
                       [to |-> Get(cd, "to"), value |-> Get(cd, "value"),
                        data |-> Get(cd, "data")],
                       "Transaction parameters validated, value is positive")>>
         ELSE <<>>)
        \o <<Action("verifyRecipient", [address |-> Get(cd, "to")],
                    "Ensure recipient is valid and not flagged for scams")>>
        \o <<Action("checkGasPrice", [chainId |-> Get(cd, "chainId")],
                    "Optimize transaction cost based on current gas prices")>>
        \o (IF RiskIsHigh(cd)
            THEN <<Action("monitorTransaction", [txHash |-> Get(cd, "hash")],
                          "High-risk transaction requires additional monitoring")>>
            ELSE <<>>),
     reasoning |-> <<Str("Analyzing "), Get(cd, "transactionType"),
                     Str(" transaction from "), Get(cd, "from"),
                     Str(" to "), Get(cd, "to")>>]

\* The transaction branch with executeTransaction proposed twice.
ReasonTransactionExecutesTwice(cd) ==
    [proposedActions |->
        <<Action("verifyRecipient", [address |-> Get(cd, "to")],
                 "Ensure recipient is valid and not flagged for scams")>>
        \o (IF ValueIsPositive(cd)
            THEN <<Action("executeTransaction",
                          [to |-> Get(cd, "to"), value |-> Get(cd, "value"),
                           data |-> Get(cd, "data")],
                          "Transaction parameters validated, value is positive"),
                   Action("executeTransaction",
                          [to |-> Get(cd, "to"), value |-> Get(cd, "value"),
                           data |-> Get(cd, "data")],
                          "Transaction parameters validated, value is positive")>>
            ELSE <<>>)
        \o <<Action("checkGasPrice", [chainId |-> Get(cd, "chainId")],
                    "Optimize transaction cost based on current gas prices")>>
        \o (IF RiskIsHigh(cd)
            THEN <<Action("monitorTransaction", [txHash |-> Get(cd, "hash")],
                          "High-risk transaction requires additional monitoring")>>
            ELSE <<>>),
     reasoning |-> <<Str("Analyzing "), Get(cd, "transactionType"),
                     Str(" transaction from "), Get(cd, "from"),
                     Str(" to "), Get(cd, "to")>>]

\* The transaction branch of reasonLayer.  `reasoning` is the template
\* literal, kept as the sequence of its literal parts and interpolated values.
ReasonTransaction(cd) ==
    [proposedActions |->
        <<Action("verifyRecipient", [address |-> Get(cd, "to")],
                 "Ensure recipient is valid and not flagged for scams")>>
        \o (IF ValueIsPositive(cd)
            THEN <<Action("executeTransaction",
                          [to |-> Get(cd, "to"), value |-> Get(cd, "value"),
                           data |-> Get(cd, "data")],
                          "Transaction parameters validated, value is positive")>>
            ELSE <<>>)
        \o <<Action("checkGasPrice", [chainId |-> Get(cd, "chainId")],
                    "Optimize transaction cost based on current gas prices")>>
        \o (IF RiskIsHigh(cd)
            THEN <<Action("monitorTransaction", [txHash |-> Get(cd, "hash")],
                          "High-risk transaction requires additional monitoring")>>
            ELSE <<>>),
     reasoning |-> <<Str("Analyzing "), Get(cd, "transactionType"),
                     Str(" transaction from "), Get(cd, "from"),
                     Str(" to "), Get(cd, "to")>>]

\* The message branch of reasonLayer.
ReasonMessage(cd) ==
    [proposedActions |->
        <<Action("respondToMessage",
                 [content |-> Str(generateContextualResponse(cd)), context |-> cd],
                 "Generated response based on intent, sentiment, and history")>>
        \o (IF Get(cd, "intent") = Str("question")
            THEN <<Action("searchForAnswer", [query |-> Get(cd, "content")],
                          "Perform search to provide accurate response")>>
            ELSE <<>>),
     reasoning |-> <<Str("Processing message with intent: "), Get(cd, "intent"),
                     Str(" and sentiment: "), Get(cd, "sentiment")>>]

\* The event branch of reasonLayer.
ReasonEvent(cd) ==
    [proposedActions |->
        <<Action("logEvent", [event |-> cd], "Record event for future reference")>>,
     reasoning |-> <<Str("Processing event: "), Get(cd, "eventName")>>]

\* reasonLayer with the event branch as the final else.
reasonLayerEventByDefault(input) ==
    IF input.metadata.dataType = "transaction" THEN ReasonTransaction(input.categorizedData)
    ELSE IF input.metadata.dataType = "message" THEN ReasonMessage(input.categorizedData)
    ELSE ReasonEvent(input.categorizedData)

\* Reason Layer: `proposedActions = []` and `reasoning = ""` (the empty
\* sequence of parts) unless a branch fills them.
reasonLayer(input) ==
    IF input.metadata.dataType = "transaction" THEN ReasonTransaction(input.categorizedData)
    ELSE IF input.metadata.dataType = "message" THEN ReasonMessage(input.categorizedData)
    ELSE IF input.metadata.dataType = "event" THEN ReasonEvent(input.categorizedData)
    ELSE [proposedActions |-> <<>>, reasoning |-> <<>>]

\* CritiqueAction with unshift in place of push for a rejected action.
CritiqueActionUnshift(acc, action, ethicalCheck, boundaryCheck) ==
    [approvedActions |->
        IF ethicalCheck.approved THEN Append(acc.approvedActions, action)
        ELSE acc.approvedActions,
     rejectedActions |->
        IF ethicalCheck.approved THEN acc.rejectedActions
        ELSE <<action>> \o acc.rejectedActions,
     limitations |->
        IF ethicalCheck.approved THEN acc.limitations
        ELSE Append(acc.limitations, "Ethical constraint: " \o ethicalCheck.reason),
     uncertainties |->
        IF boundaryCheck.uncertain THEN Append(acc.uncertainties, boundaryCheck.reason)
        ELSE acc.uncertainties,
     explanation |->
        Append(acc.explanation,
               [verdict |-> IF ethicalCheck.approved THEN "Approved" ELSE "Rejected",
                action |-> action.action,
                reason |-> ethicalCheck.reason])]

\* The loop body with the boundary check made only for approved actions.
CritiqueActionUncertainIfApproved(acc, action, ethicalCheck, boundaryCheck) ==
    [approvedActions |->
        IF ethicalCheck.approved THEN Append(acc.approvedActions, action)
        ELSE acc.approvedActions,
     rejectedActions |->
        IF ethicalCheck.approved THEN acc.rejectedActions
        ELSE Append(acc.rejectedActions, action),
     limitations |->
        IF ethicalCheck.approved THEN acc.limitations
        ELSE Append(acc.limitations, "Ethical constraint: " \o ethicalCheck.reason),
     uncertainties |->
        IF ethicalCheck.approved /\ boundaryCheck.uncertain
        THEN Append(acc.uncertainties, boundaryCheck.reason)
        ELSE acc.uncertainties,
     explanation |->
        Append(acc.explanation,
               [verdict |-> IF ethicalCheck.approved THEN "Approved" ELSE "Rejected",
                action |-> action.action,
                reason |-> ethicalCheck.reason])]

\* One iteration of the loop of critiqueLayer: the lists acc after `action`
\* got the verdict ethicalCheck and the flag boundaryCheck.
CritiqueAction(acc, action, ethicalCheck, boundaryCheck) ==
    [approvedActions |->
        IF ethicalCheck.approved THEN Append(acc.approvedActions, action)
        ELSE acc.approvedActions,
     rejectedActions |->
        IF ethicalCheck.approved THEN acc.rejectedActions
        ELSE Append(acc.rejectedActions, action),
     limitations |->
        IF ethicalCheck.approved THEN acc.limitations
        ELSE Append(acc.limitations, "Ethical constraint: " \o ethicalCheck.reason),
     uncertainties |->
        IF boundaryCheck.uncertain THEN Append(acc.uncertainties, boundaryCheck.reason)
        ELSE acc.uncertainties,
     explanation |->
        Append(acc.explanation,
               [verdict |-> IF ethicalCheck.approved THEN "Approved" ELSE "Rejected",
                action |-> action.action,
                reason |-> ethicalCheck.reason])]

\* The loop of critiqueLayer over the proposed actions from index i on; an
\* error raised by a check ends it.
RECURSIVE CritiqueLoop(_, _, _)
CritiqueLoop(actions, i, acc) ==
    IF i > Len(actions) THEN Return(acc)
    ELSE IF categoricalImperative(actions[i]).threw THEN categoricalImperative(actions[i])
    ELSE IF checkActionBoundaries(actions[i]).threw THEN checkActionBoundaries(actions[i])
    ELSE CritiqueLoop(actions, i + 1,
                      CritiqueAction(acc, actions[i], categoricalImperative(actions[i]),
                                     checkActionBoundaries(actions[i])))

\* The CritiqueOutput built from the loop's lists.  `explanation` keeps the
\* parts of the template literal: the reasoning, one line per action and the
\* confidence line.
CritiqueResult(reasoning, r, confidence) ==
    [confidence |-> confidence,
     limitations |-> r.limitations,
     uncertainties |-> r.uncertainties,
     approvedActions |-> r.approvedActions,
     rejectedActions |-> r.rejectedActions,
     explanation |-> [reasoning |-> reasoning, lines |-> r.explanation,
                      confidence |-> confidence]]

EmptyLists ==
    [approvedActions |-> <<>>, rejectedActions |-> <<>>, limitations |-> <<>>,
     uncertainties |-> <<>>, explanation |-> <<>>]

\* critiqueLayer once the loop has ended with `loop`.
CritiqueAfterLoop(reasoning, loop) ==
    IF loop.threw THEN loop
    ELSE Return(CritiqueResult(reasoning, loop.value,
                               calculateConfidence(loop.value.approvedActions,
                                                   loop.value.rejectedActions,
                                                   loop.value.uncertainties)))

\* Critique Layer.
critiqueLayer(input) ==
    CritiqueAfterLoop(input.reasoning, CritiqueLoop(input.proposedActions, 1, EmptyLists))

(***************************************************************************)
(* pipeline.ts: the boundary check and the explanation                     *)
(***************************************************************************)

Digit(d) ==
    CASE d = 0 -> "0" [] d = 1 -> "1" [] d = 2 -> "2" [] d = 3 -> "3" [] d = 4 -> "4"
      [] d = 5 -> "5" [] d = 6 -> "6" [] d = 7 -> "7" [] d = 8 -> "8" [] d = 9 -> "9"

\* Number.prototype.toFixed(2) of h hundredths, 0 <= h < 1000.
ToFixed2(h) == Digit(h \div 100) \o "." \o Digit((h \div 10) % 10) \o Digit(h % 10)

\* String(x) of h hundredths, 0 <= h < 1000: no trailing zeros.
NumberToString(h) ==
    IF h % 100 = 0 THEN Digit(h \div 100)
    ELSE IF h % 10 = 0 THEN Digit(h \div 100) \o "." \o Digit((h \div 10) % 10)
    ELSE Digit(h \div 100) \o "." \o Digit((h \div 10) % 10) \o Digit(h % 10)

\* Array.prototype.join
RECURSIVE Join(_, _)
Join(list, sep) ==
    IF Len(list) = 0 THEN ""
    ELSE IF Len(list) = 1 THEN list[1]
    ELSE list[1] \o sep \o Join(Tail(list), sep)

\* The default of the confidenceThreshold parameter and option (0.7).
DefaultThreshold == 70

\* checkEpistemicBoundaries with <= in place of < in the confidence test.
checkEpistemicBoundariesAtThreshold(output, threshold) ==
    IF output.confidence <= threshold
        THEN [shouldDefer |-> TRUE,
              reason |-> "Low confidence (" \o ToFixed2(output.confidence)
                         \o ") below threshold of " \o NumberToString(threshold)]
    ELSE IF Len(output.limitations) > 0
        THEN [shouldDefer |-> TRUE,
              reason |-> "Limitations detected: " \o Join(output.limitations, ", ")]
    ELSE IF Len(output.uncertainties) > 0
        THEN [shouldDefer |-> TRUE,
              reason |-> "Uncertainties present: " \o Join(output.uncertainties, ", ")]
    ELSE [shouldDefer |-> FALSE, reason |-> "Within epistemic boundaries"]

\* pipeline.ts checkEpistemicBoundaries(output, confidenceThreshold): should
\* the agent defer to human judgment?
checkEpistemicBoundaries(output, threshold) ==
    IF output.confidence < threshold
        THEN [shouldDefer |-> TRUE,
              reason |-> "Low confidence (" \o ToFixed2(output.confidence)
                         \o ") below threshold of " \o NumberToString(threshold)]
    ELSE IF Len(output.limitations) > 0
        THEN [shouldDefer |-> TRUE,
              reason |-> "Limitations detected: " \o Join(output.limitations, ", ")]
    ELSE IF Len(output.uncertainties) > 0
        THEN [shouldDefer |-> TRUE,
              reason |-> "Uncertainties present: " \o Join(output.uncertainties, ", ")]
    ELSE [shouldDefer |-> FALSE, reason |-> "Within epistemic boundaries"]

\* generateExplanation(output): the parts the template renders.
generateExplanation(output) ==
    [confidenceLevel |-> ToFixed2(output.confidence),
     approvedActionsList |->
        LET list == Join([i \in 1..Len(output.approvedActions) |->
                            "- " \o output.approvedActions[i].action \o ": "
                            \o output.approvedActions[i].justification], "\n")
        IN IF list = "" THEN "None" ELSE list,
     rejectedActionsList |->
        Join([i \in 1..Len(output.rejectedActions) |->
                "- " \o output.rejectedActions[i].action
                \o ": Rejected due to ethical constraints"], "\n"),
     reasoning |-> output.explanation,
     limitations |-> Join(output.limitations, "\n- "),
     uncertainties |-> Join(output.uncertainties, "\n- ")]

\* The stages of carPipeline after sensibilityLayer returned `sensed`, each
\* on the result of the one before; the first error ends the run.
AfterSensibility(sensed) ==
    IF sensed.threw THEN sensed
    ELSE IF understandingLayer(sensed.value).threw THEN understandingLayer(sensed.value)
    ELSE critiqueLayer(reasonLayer(understandingLayer(sensed.value).value))

\* The error carPipeline's catch rethrows.
Wrapped(r) == IF r.threw THEN Throw("Pipeline failed: " \o r.message) ELSE r

\* carPipeline(rawInput, context) run to its end, with the clock at t1 and t2
\* when sensibilityLayer reads it.
carPipeline(input, ctx, t1, t2) ==
    Wrapped(AfterSensibility(sensibilityLayer([rawData |-> input, context |-> ctx], t1, t2)))

\* The defaults of the options carPipeline destructures (debug apart).
DefaultMaxProcessingTime == 5000
DefaultPipelineOptions ==
    [ethicalConstraints |-> [allowHighValueTransactions |-> FALSE,
                             requireExplicitConsent |-> FALSE,
                             preventMisleadingResponses |-> TRUE],
     maxProcessingTime |-> DefaultMaxProcessingTime]

\* processingTime > maxProcessingTime: carPipeline warns.
ProcessingTimeExceeded(processingTime, maxTime) == processingTime > maxTime

\* The check of the processing time with an abort in place of the warning.
AbortWhenTimeExceeded(output, processingTime, maxTime) ==
    IF processingTime > maxTime THEN Throw("Processing time exceeded") ELSE Return(output)

\* The end of carPipeline's try block: the check of the processing time, which
\* only warns, and `return critiqueOutput`.
AfterTimeCheck(output, processingTime, maxTime) == Return(output)

\* The defaults of car() that afterRun reads: logDecisions is console.log, a
\* function and so truthy; enableExplanations is true.
logDecisions == TRUE
enableExplanations == TRUE
deferralMessage == "I need to defer to human judgment"

\* { ...output, ...changes }
SpreadOutput(output, changes) == changes @@ output

\* afterRun({ output, context }) with context.car = ctxCar (None when the
\* context has no car).  ctxCar.approvedActions.length raises when beforeRun
\* wrote the error context, which has no approvedActions.  The message of a
\* deferral is kept in two parts: the text, and the explanation appended to it
\* after a blank line (None when nothing is appended).
afterRun(output, ctxCar) ==
    IF ctxCar = None THEN Return(output)
    ELSE IF logDecisions /\ "approvedActions" \notin DOMAIN ctxCar
        THEN CannotRead(Undefined, "length")
    ELSE IF "error" \in DOMAIN ctxCar /\ ctxCar.error # ""
        THEN Return(SpreadOutput(output,
                [message |-> deferralMessage \o ": " \o ctxCar.deferReason,
                 messageExplanation |-> None,
                 deferred |-> TRUE]))
    ELSE IF ctxCar.deferred
        THEN Return(SpreadOutput(output,
                [message |-> deferralMessage \o ": " \o ctxCar.deferReason,
                 messageExplanation |->
                    IF enableExplanations THEN ctxCar.explanation ELSE None,
                 deferred |-> TRUE]))
    ELSE IF enableExplanations
        THEN Return(SpreadOutput(output, [carExplanation |-> ctxCar.explanation]))
    ELSE Return(output)

(***************************************************************************)
(* The evaluator of blockchain actions (evaluateBlockchainAction)           *)
(***************************************************************************)

\* Mock list of known malicious addresses.
knownMaliciousAddresses == {Str("0xknownScamAddress"), Str("0xanotherScam")}

\* s.startsWith(w) on a value: raises unless s is a string.
ValueStartsWith(v, name, w) ==
    IF IsNullish(v) THEN CannotRead(v, "startsWith")
    ELSE IF v.t # "string" THEN Throw(name \o ".startsWith is not a function")
    ELSE Return(StartsWith(v.s, w))

\* Check if an address is safe, suspicious, or malicious: the category.
checkAddress(address) ==
    IF address \in knownMaliciousAddresses THEN Return("malicious")
    ELSE IF ValueStartsWith(address, "address", "0x000").threw
        THEN ValueStartsWith(address, "address", "0x000")
    ELSE IF ValueStartsWith(address, "address", "0x000").value THEN Return("suspicious")
    ELSE Return("unknown")

\* The reason checkAddress gives with a category.
AddressReason(category) ==
    CASE category = "malicious" ->
            "Address is known to be associated with scams or malicious activities."
      [] category = "suspicious" ->
            "Address matches suspicious pattern (starts with 0x000)."
      [] OTHER -> "No information available for this address."

\* Check the safety of a contract interaction; data is a string here.
checkContractSafety(contractAddress, data) ==
    IF ValueStartsWith(contractAddress, "contractAddress", "0xsafe").threw
        THEN ValueStartsWith(contractAddress, "contractAddress", "0xsafe")
    ELSE IF ValueStartsWith(contractAddress, "contractAddress", "0xsafe").value
        THEN Return([safe |-> TRUE, reason |-> "Contract is verified and safe."])
    ELSE IF Includes(data.s, "selfdestruct")
        THEN Return([safe |-> FALSE,
                     reason |-> "Contract interaction includes dangerous operations (selfdestruct)."])
    ELSE Return([safe |-> FALSE, reason |-> "Contract safety could not be verified."])

MAX_TRANSACTION_VALUE == 1000

\* Check if the transaction value is within ethical limits; value is a number.
checkTransactionValue(value, token) ==
    IF Gt(value, MAX_TRANSACTION_VALUE)
        THEN Rejected("Transaction value exceeds maximum allowed limit of 1000 "
                      \o Or(token, Str("ETH")).s)
    ELSE Approved("Transaction value within acceptable limits")

blockchainActions == {"executeTransaction", "deployContract", "callContract",
                      "signMessage", "approveToken", "transferToken"}

\* isBlockchainAction comparing the names without regard to case.
isBlockchainActionIgnoringCase(action) ==
    toLowerCase(action.action) \in {toLowerCase(name) : name \in blockchainActions}

\* Check if the action is blockchain-related.
isBlockchainAction(action) == action.action \in blockchainActions

Valid == [threw |-> FALSE, valid |-> TRUE, reason |-> "All required parameters are present"]
Invalid(r) == [threw |-> FALSE, valid |-> FALSE, reason |-> r]

\* !action.params.k
Missing(action, k) == ~Truthy(Get(action.params, k))

\* The cases of the switch of validateActionParams, for an action of the
\* table.  The first read of action.params raises when the action has no
\* params.
validateKnownAction(action) ==
    IF IsNullish(action.params)
        THEN CannotRead(action.params,
                        CASE action.action = "executeTransaction" -> "to"
                          [] action.action = "deployContract" -> "bytecode"
                          [] action.action = "callContract" -> "to"
                          [] action.action = "signMessage" -> "message"
                          [] OTHER -> "token")
    ELSE IF action.action = "executeTransaction"
        THEN IF Missing(action, "to") THEN Invalid("Missing recipient address") ELSE Valid
    ELSE IF action.action = "deployContract"
        THEN IF Missing(action, "bytecode") THEN Invalid("Missing contract bytecode") ELSE Valid
    ELSE IF action.action = "callContract"
        THEN IF Missing(action, "to") \/ Missing(action, "data")
             THEN Invalid("Missing contract address or call data") ELSE Valid
    ELSE IF action.action = "signMessage"
        THEN IF Missing(action, "message") THEN Invalid("Missing message to sign") ELSE Valid
    ELSE IF action.action = "approveToken"
        THEN IF Missing(action, "token") \/ Missing(action, "spender") \/ Missing(action, "amount")
             THEN Invalid("Missing token approval parameters (token, spender, or amount)")
             ELSE Valid
    ELSE IF Missing(action, "token") \/ Missing(action, "to") \/ Missing(action, "amount")
        THEN Invalid("Missing token transfer parameters (token, recipient, or amount)")
    ELSE Valid

\* validateActionParams with a default case that breaks out of the switch.
validateActionParamsDefaultBreaks(action) ==
    IF action.action \notin blockchainActions THEN Valid
    ELSE validateKnownAction(action)

\* Validate that the blockchain action has all required parameters; the
\* default case of the switch is the action outside the table.
validateActionParams(action) ==
    IF action.action \notin blockchainActions THEN Invalid("Unknown blockchain action")
    ELSE validateKnownAction(action)

\* `if (action.params.value) { ... }` and the final approval.
ValueCheck(action) ==
    IF Truthy(Get(action.params, "value"))
       /\ ~checkTransactionValue(Get(action.params, "value"),
                                 Get(action.params, "token")).approved
        THEN checkTransactionValue(Get(action.params, "value"), Get(action.params, "token"))
    ELSE Approved("Blockchain action passed all ethical checks")

\* action.params.data && action.params.data.length > 2
HasCallData(action) ==
    Truthy(Get(action.params, "data")) /\ Gt(Length(Get(action.params, "data")), 2)

\* `if (action.params.data && action.params.data.length > 2) { ... }` and what
\* follows it.
ContractCheck(action, contractCheck) ==
    IF ~HasCallData(action) THEN ValueCheck(action)
    ELSE IF contractCheck.threw THEN contractCheck
    ELSE IF ~contractCheck.value.safe
        THEN Rejected("Unsafe contract interaction: " \o contractCheck.value.reason)
    ELSE ValueCheck(action)

\* `if (action.params.to) { ... }` and what follows it.
AddressCheck(action, addressCheck) ==
    IF Truthy(Get(action.params, "to")) /\ addressCheck.threw THEN addressCheck
    ELSE IF Truthy(Get(action.params, "to")) /\ addressCheck.value = "malicious"
        THEN Rejected("Malicious recipient address: " \o AddressReason("malicious"))
    ELSE IF Truthy(Get(action.params, "to")) /\ addressCheck.value = "suspicious"
        THEN Rejected("Suspicious recipient address: " \o AddressReason("suspicious"))
    ELSE ContractCheck(action,
                       IF HasCallData(action) /\ Get(action.params, "data").t = "string"
                       THEN checkContractSafety(Get(action.params, "to"),
                                                Get(action.params, "data"))
                       ELSE Return([safe |-> TRUE, reason |-> ""]))

\* Evaluate blockchain actions against enhanced ethical constraints.
evaluateBlockchainAction(action) ==
    IF ~isBlockchainAction(action) THEN Approved("Not a blockchain action")
    ELSE IF validateActionParams(action).threw THEN validateActionParams(action)
    ELSE IF ~validateActionParams(action).valid
        THEN Rejected(validateActionParams(action).reason)
    ELSE AddressCheck(action,
                      IF Truthy(Get(action.params, "to"))
                      THEN checkAddress(Get(action.params, "to"))
                      ELSE Return("unknown"))

(***************************************************************************)
(* Inputs                                                                  *)
(***************************************************************************)

\* The latest clock value.
MaxNow == 2
\* The longest list of candidate actions handed to critiqueLayer directly
\* (over SmallActions; pairs are drawn over all of CandidateActions).
MaxActions == 4

\* An object literal: a property whose value is undefined is left out.
MkObj(r) == Obj([k \in {k \in DOMAIN r : r[k] # Undefined} |-> r[k]])

RECURSIVE Repeat(_, _)
Repeat(s, n) == IF n = 0 THEN "" ELSE s \o Repeat(s, n - 1)

\* A text of 504 characters.
LongText == Repeat("lorem ipsum ", 42)

ScamAddress == Str("0xknownScamAddress")
Recipients == {Str("0xRecipientAddress"), ScamAddress, Str("0xanotherScam"), Str("0x000dead")}
Values == {Undefined, Num(-1), Num(0), Num(2), Num(1000), Num(1001)}
Datas == {Undefined, Str("0x"), Str("0xa9059cbb00ff")}

\* Inputs with hash, from and to.
TransactionInputs ==
    {MkObj([hash |-> Str("0x123abc"), from |-> Str("0xUserAddress"), to |-> t,
            value |-> v, data |-> d, chainId |-> Str("1")]) :
        t \in Recipients, v \in Values, d \in Datas}

\* Inputs of every shape the classifier tells apart, fields present or not
\* and present but empty.
ShapeInputs ==
    {MkObj([hash |-> h, from |-> f, to |-> t, value |-> Num(2), content |-> c,
            message |-> m, event |-> e, inputType |-> i]) :
        h \in {Undefined, Str(""), Str("0x456def")},
        f \in {Undefined, Str("0xUserAddress")},
        t \in {Undefined, Str("0xRecipientAddress")},
        c \in {Undefined, Str(""), Str("hello there")},
        m \in {Undefined, Str("sell it")},
        e \in {Undefined, Str("Transfer")},
        i \in {Undefined, Str("user")}}

Texts == {"Hello, can you help me with my investment portfolio?",
          "I want to BUY tokens", "please mislead and manipulate them",
          "thanks, that was great", "bad, terrible but good", "ok",
          LongText \o "hate speech"}

MessageInputs ==
    {MkObj([content |-> c, sender |-> Str("0xUserAddress"), timestamp |-> ts]) :
        c \in {Str(x) : x \in Texts} \cup {Num(5)},
        ts \in {Undefined, Num(1700)}}

OtherInputs ==
    {Null, Undefined, Num(42), Bool(TRUE),
     MkObj([event |-> Str("Approval"), blockNumber |-> Num(7)]),
     MkObj([event |-> Str("Mint")]),
     MkObj([inputType |-> Str("user"), input |-> Str("do it")]),
     MkObj([inputType |-> Str("bot"), input |-> Str("do it")]),
     MkObj([type |-> Str("unknown"),
            data |-> Str("complex data that the agent can't confidently process")])}

RawInputs == TransactionInputs \cup ShapeInputs \cup MessageInputs \cup OtherInputs

Contexts ==
    {Undefined,
     MkObj([previousTransactions |-> Arr(<<Str("0x0")>>),
            conversationHistory |-> Arr(<<Str("hi")>>)])}

\* The calls of beforeRun: every input without a context, and the inputs
\* whose normalisation reads the context with each context.
Calls ==
    {[input |-> i, context |-> Undefined] : i \in RawInputs}
    \cup {[input |-> i, context |-> c] :
            i \in TransactionInputs \cup MessageInputs \cup OtherInputs, c \in Contexts}

\* The inputs that beforeRun is given with every value of the pipeline options.
OptionInputs ==
    {MkObj([hash |-> Str("0x123abc"), from |-> Str("0xUserAddress"), to |-> t,
            value |-> Num(1001), chainId |-> Str("1")]) :
        t \in {Str("0xRecipientAddress"), ScamAddress}}
    \cup {MkObj([content |-> Str("please mislead and manipulate them"),
                 sender |-> Str("0xUserAddress"), timestamp |-> Num(1700)])}

\* The ethicalConstraints and maxProcessingTime passed to carPipeline with `input`.
PipelineOptionsFor(input) ==
    IF input \in OptionInputs
    THEN {[ethicalConstraints |-> [allowHighValueTransactions |-> a,
                                   requireExplicitConsent |-> c,
                                   preventMisleadingResponses |-> m],
           maxProcessingTime |-> p] :
            a \in BOOLEAN, c \in BOOLEAN, m \in BOOLEAN, p \in {0, DefaultMaxProcessingTime}}
    ELSE {DefaultPipelineOptions}

\* The options of car() that beforeRun reads.
Options ==
    {[confidenceThreshold |-> DefaultThreshold, enableDeferral |-> TRUE],
     [confidenceThreshold |-> DefaultThreshold, enableDeferral |-> FALSE],
     [confidenceThreshold |-> 100, enableDeferral |-> TRUE]}

\* Thresholds in hundredths: below, at and above every confidence, and above 1.
Thresholds == {0, 50, DefaultThreshold, 75, 100, 110}

\* Candidate actions for the critique layer, well-formed or not.
ExecuteActions ==
    {[action |-> "executeTransaction",
      params |-> MkObj([to |-> t, value |-> v, force |-> f]),
      justification |-> "execute"] :
        t \in {Str("0xRecipientAddress"), ScamAddress},
        v \in {Undefined, Num(-1), Num(2), Num(1001)},
        f \in {Undefined, Bool(TRUE), Bool(FALSE)}}

RespondActions ==
    {[action |-> "respondToMessage", params |-> MkObj([content |-> c]),
      justification |-> "respond"] :
        c \in {Undefined, Num(5), Str("Thank you for your message."),
               Str("I will mislead you"), Str("let me manipulate you"),
               Str("some hate speech"), Str("Mislead"),
               Str("mislead, manipulate, hate speech"),
               Str("manipulate with hate speech"), Str(LongText)}}

OtherActions ==
    {[action |-> "verifyRecipient", params |-> MkObj([address |-> ScamAddress]),
      justification |-> "verify"],
     [action |-> "transferToken",
      params |-> MkObj([to |-> ScamAddress, value |-> Num(-1), force |-> Bool(TRUE)]),
      justification |-> "transfer"],
     [action |-> "logEvent", params |-> MkObj([content |-> Str("mislead")]),
      justification |-> "log"]}

CandidateActions == ExecuteActions \cup RespondActions \cup OtherActions

\* Rejected and uncertain; approved and uncertain; approved; rejected.
SmallActions ==
    {[action |-> "executeTransaction",
      params |-> MkObj([to |-> ScamAddress, value |-> Num(1001)]), justification |-> "a"],
     [action |-> "executeTransaction",
      params |-> MkObj([to |-> Str("0xRecipientAddress"), value |-> Num(1001)]),
      justification |-> "b"],
     [action |-> "checkGasPrice", params |-> MkObj([chainId |-> Str("1")]),
      justification |-> "c"],
     [action |-> "respondToMessage", params |-> MkObj([content |-> Str("hate speech")]),
      justification |-> "d"]}

\* Parameters of the actions handed to evaluateBlockchainAction: recipient,
\* call data and value, with or without the parameters the table requires.
BlockchainParams ==
    {MkObj([to |-> t, data |-> d, value |-> v, token |-> k.token, amount |-> k.amount,
            spender |-> k.spender, bytecode |-> k.bytecode, message |-> k.message]) :
        t \in {Undefined, Str(""), Str("0xRecipientAddress"), ScamAddress, Str("0x000dead"),
               Str("0xsafeVault")},
        d \in {Undefined, Str("0x"), Str("0xa9059cbb00ff"), Str("0xselfdestruct")},
        v \in {Undefined, Num(0), Num(2), Num(1000), Num(1001)},
        k \in {[token |-> Undefined, amount |-> Undefined, spender |-> Undefined,
                bytecode |-> Undefined, message |-> Undefined],
               [token |-> Str("DAI"), amount |-> Num(5000), spender |-> Str("0xSpender"),
                bytecode |-> Str("0x6080"), message |-> Str("sign me")]}}

\* Actions with the names of the table and with others, with a params record
\* or without one.
BlockchainActions ==
    {[action |-> a, params |-> p, justification |-> "j"] :
        a \in blockchainActions \cup {"verifyRecipient", "ExecuteTransaction", "swapToken"},
        p \in BlockchainParams \cup {Undefined}}

\* The lists over S of length at most n.
Lists(S, n) == UNION {[1..k -> S] : k \in 0..n}

ActionLists == Lists(CandidateActions, 2) \cup Lists(SmallActions, MaxActions)

ReasonInputs ==
    {[proposedActions |-> l, reasoning |-> <<Str("Processing")>>] : l \in ActionLists}

\* Enriched records handed to reasonLayer directly.
EnrichedInputs ==
    {[categorizedData |-> MkObj([hash |-> Str("0x1"), from |-> Str("0xA"),
                                 to |-> Str("0xB"), value |-> v, risk |-> r,
                                 intent |-> i, content |-> Str("what?"),
                                 eventName |-> Str("Transfer")]),
      metadata |-> [dataType |-> d, source |-> Str("unknown"), timestamp |-> 1]] :
        v \in {Undefined, Num(-1), Num(0), Num(2), Num(1001)},
        r \in {Undefined, Str("low"), Str("high")},
        i \in {Undefined, Str("question"), Str("greeting")},
        d \in {"transaction", "message", "event", "userInput", "unknown"}}

\* Call data of 1000 and of 1001 characters.
Data1000 == Repeat("0x23b872dd", 100)
Data1001 == Data1000 \o "0"

\* Transaction records handed to understandingLayer directly: the schema of
\* structureData, with and without a `to` address, value and data length on
\* both sides of the risk thresholds.
TransactionRecords ==
    {[categorizedData |-> Obj([hash |-> Str("0x1"), from |-> Str("0xA"), to |-> t,
                               value |-> v, data |-> d, gas |-> Undefined,
                               chainId |-> Str("1"), previousTxs |-> Arr(<<>>)]),
      metadata |-> [dataType |-> "transaction", source |-> Str("Ethereum"),
                    timestamp |-> 1]] :
        t \in {Undefined, Str("0xB")},
        v \in {Num(0), Num(1000), Num(1001)},
        d \in {Str(""), Str("0x"), Str(Data1000), Str(Data1001)}}

\* Critique outputs handed to checkEpistemicBoundaries directly.
CritiqueOutputs ==
    {[confidence |-> c, limitations |-> l, uncertainties |-> u,
      approvedActions |-> <<>>, rejectedActions |-> <<>>,
      explanation |-> [reasoning |-> <<>>, lines |-> <<>>, confidence |-> c]] :
        c \in {0, 50, 69, 70, 71, 100},
        l \in {<<>>, <<"Ethical constraint: x">>, <<"Ethical constraint: x", "Ethical constraint: y">>},
        u \in {<<>>, <<"High-value transactions exceed confidence boundaries">>}}

(***************************************************************************)
(* The caller: one call of an exported entry point                         *)
(***************************************************************************)

Init ==
    /\ pc = "idle"
    /\ entry = "none"
    /\ now = 1
    /\ rawInput = None
    /\ context = None
    /\ confidenceThreshold = DefaultThreshold
    /\ enableDeferral = TRUE
    /\ sensibilityOutput = None
    /\ understandingOutput = None
    /\ reasonOutput = None
    /\ critiqueOutput = None
    /\ humilityCheck = None
    /\ error = ""
    /\ car = None
    /\ blockchainAction = None
    /\ verdict = None
    /\ pipelineOptions = DefaultPipelineOptions
    /\ startTime = 0
    /\ warned = FALSE
    /\ calls = None
    /\ heap = None
    /\ supplied = None
    /\ afterRunResult = None

\* car(options).beforeRun({input, context}): carPipeline is entered.
BeforeRun(input, ctx, threshold, deferral) ==
    /\ pc = "idle"
    /\ UNCHANGED <<evaluatorVars, concurrentVars, hookVars>>
    /\ pc' = "sensibility"
    /\ entry' = "beforeRun"
    /\ rawInput' = input
    /\ context' = ctx
    /\ confidenceThreshold' = threshold
    /\ enableDeferral' = deferral
    /\ \E chosen \in PipelineOptionsFor(input) : pipelineOptions' = chosen
    /\ startTime' = now
    /\ warned' = FALSE
    /\ UNCHANGED <<now, sensibilityOutput, understandingOutput, reasonOutput,
                   critiqueOutput, humilityCheck, error, car>>

\* carPipeline's catch: the error is wrapped and rethrown.
PipelineFailed(message) ==
    /\ pc' = "failed"
    /\ error' = "Pipeline failed: " \o message

\* Step 1 of carPipeline: await sensibilityLayer(...).
SensibilityStep ==
    /\ pc = "sensibility"
    /\ UNCHANGED <<evaluatorVars, optionVars, concurrentVars, hookVars>>
    /\ \E t1 \in now..MaxNow : \E t2 \in t1..MaxNow :
        LET r == sensibilityLayer([rawData |-> rawInput, context |-> context], t1, t2)
        IN /\ now' = t2
           /\ IF r.threw
              THEN PipelineFailed(r.message) /\ UNCHANGED sensibilityOutput
              ELSE pc' = "understanding" /\ sensibilityOutput' = r.value /\ UNCHANGED error
    /\ UNCHANGED <<entry, rawInput, context, confidenceThreshold, enableDeferral,
                   understandingOutput, reasonOutput, critiqueOutput, humilityCheck, car>>

\* Step 2 of carPipeline: await understandingLayer(...).
UnderstandingStep ==
    /\ pc = "understanding"
    /\ UNCHANGED <<evaluatorVars, optionVars, concurrentVars, hookVars>>
    /\ LET r == understandingLayer(sensibilityOutput)
       IN IF r.threw
          THEN PipelineFailed(r.message) /\ UNCHANGED understandingOutput
          ELSE pc' = "reason" /\ understandingOutput' = r.value /\ UNCHANGED error
    /\ UNCHANGED <<entry, now, rawInput, context, confidenceThreshold, enableDeferral,
                   sensibilityOutput, reasonOutput, critiqueOutput, humilityCheck, car>>

\* Step 3 of carPipeline: await reasonLayer(...).
ReasonStep ==
    /\ pc = "reason"
    /\ UNCHANGED <<evaluatorVars, optionVars, concurrentVars, hookVars>>
    /\ pc' = "critique"
    /\ reasonOutput' = reasonLayer(understandingOutput)
    /\ UNCHANGED <<entry, now, rawInput, context, confidenceThreshold, enableDeferral,
                   sensibilityOutput, understandingOutput, critiqueOutput,
                   humilityCheck, error, car>>

\* The end of carPipeline's try block once critiqueLayer returned `output`:
\* the check of the processing time at the clock value t, and the return.
PipelineEnds(output, t) ==
    /\ now' = t
    /\ warned' = ProcessingTimeExceeded(t - startTime, pipelineOptions.maxProcessingTime)
    /\ IF AfterTimeCheck(output, t - startTime, pipelineOptions.maxProcessingTime).threw
       THEN /\ PipelineFailed(AfterTimeCheck(output, t - startTime,
                                             pipelineOptions.maxProcessingTime).message)
            /\ UNCHANGED critiqueOutput
       ELSE /\ pc' = "returned"
            /\ critiqueOutput' = AfterTimeCheck(output, t - startTime,
                                                pipelineOptions.maxProcessingTime).value
            /\ UNCHANGED error

\* Step 4 of carPipeline: await critiqueLayer(...), and the end of the try block.
CritiqueStep ==
    /\ pc = "critique"
    /\ UNCHANGED <<evaluatorVars, concurrentVars, hookVars>>
    /\ LET r == critiqueLayer(reasonOutput)
       IN IF r.threw
          THEN PipelineFailed(r.message) /\ UNCHANGED <<critiqueOutput, now, warned>>
          ELSE \E t \in now..MaxNow : PipelineEnds(r.value, t)
    /\ UNCHANGED <<entry, rawInput, context, confidenceThreshold, enableDeferral,
                   sensibilityOutput, understandingOutput, reasonOutput,
                   humilityCheck, car, pipelineOptions, startTime>>

\* beforeRun after carPipeline returned: the boundary check and context.car.
BeforeRunReturn ==
    /\ pc = "returned"
    /\ UNCHANGED <<evaluatorVars, optionVars, concurrentVars, hookVars>>
    /\ pc' = "done"
    /\ LET check == checkEpistemicBoundaries(critiqueOutput, confidenceThreshold)
           defer == enableDeferral /\ check.shouldDefer
       IN /\ humilityCheck' = IF enableDeferral THEN check ELSE None
          /\ car' = [confidence |-> critiqueOutput.confidence,
                     limitations |-> critiqueOutput.limitations,
                     uncertainties |-> critiqueOutput.uncertainties,
                     approvedActions |-> critiqueOutput.approvedActions,
                     rejectedActions |-> critiqueOutput.rejectedActions,
                     deferred |-> defer,
                     deferReason |-> IF defer THEN check.reason ELSE "",
                     explanation |-> generateExplanation(critiqueOutput)]
    /\ UNCHANGED <<entry, now, rawInput, context, confidenceThreshold, enableDeferral,
                   sensibilityOutput, understandingOutput, reasonOutput, critiqueOutput,
                   error>>

\* beforeRun's catch: the pipeline error becomes a forced deferral.
BeforeRunCatch ==
    /\ pc = "failed"
    /\ UNCHANGED <<evaluatorVars, optionVars, concurrentVars, hookVars>>
    /\ pc' = "done"
    /\ car' = [error |-> error, deferred |-> TRUE, deferReason |-> "Pipeline error occurred"]
    /\ UNCHANGED <<entry, now, rawInput, context, confidenceThreshold, enableDeferral,
                   sensibilityOutput, understandingOutput, reasonOutput, critiqueOutput,
                   humilityCheck, error>>

\* The output of the agent's own logic, handed to afterRun.
AgentOutputs == {[message |-> "Transaction processed."], [status |-> "ok"]}

\* The afterRun hook: after beforeRun on the context beforeRun returned, or
\* with no beforeRun before it on a context without car.
AfterRun(output) ==
    /\ afterRunResult = None
    /\ \/ pc = "done" /\ entry = "beforeRun" /\ UNCHANGED <<pc, entry>>
       \/ pc = "idle" /\ pc' = "done" /\ entry' = "afterRun"
    /\ afterRunResult' = afterRun(output, car)
    /\ UNCHANGED <<evaluatorVars, optionVars, concurrentVars>>
    /\ UNCHANGED <<now, rawInput, context, confidenceThreshold, enableDeferral,
                   sensibilityOutput, understandingOutput, reasonOutput, critiqueOutput,
                   humilityCheck, error, car>>

\* understandingLayer(input), called directly.
CallUnderstandingLayer(input) ==
    /\ pc = "idle"
    /\ UNCHANGED <<evaluatorVars, optionVars, concurrentVars, hookVars>>
    /\ pc' = "done"
    /\ entry' = "understandingLayer"
    /\ sensibilityOutput' = input
    /\ LET r == understandingLayer(input)
       IN IF r.threw
          THEN error' = r.message /\ UNCHANGED understandingOutput
          ELSE understandingOutput' = r.value /\ UNCHANGED error
    /\ UNCHANGED <<now, rawInput, context, confidenceThreshold, enableDeferral,
                   reasonOutput, critiqueOutput, humilityCheck, car>>

\* reasonLayer(input), called directly.
CallReasonLayer(input) ==
    /\ pc = "idle"
    /\ UNCHANGED <<evaluatorVars, optionVars, concurrentVars, hookVars>>
    /\ pc' = "done"
    /\ entry' = "reasonLayer"
    /\ understandingOutput' = input
    /\ reasonOutput' = reasonLayer(input)
    /\ UNCHANGED <<now, rawInput, context, confidenceThreshold, enableDeferral,
                   sensibilityOutput, critiqueOutput, humilityCheck, error, car>>

\* critiqueLayer(input), called directly; an error reaches the caller as raised.
CallCritiqueLayer(input) ==
    /\ pc = "idle"
    /\ UNCHANGED <<evaluatorVars, optionVars, concurrentVars, hookVars>>
    /\ pc' = "done"
    /\ entry' = "critiqueLayer"
    /\ reasonOutput' = input
    /\ LET r == critiqueLayer(input)
       IN IF r.threw
          THEN error' = r.message /\ UNCHANGED critiqueOutput
          ELSE critiqueOutput' = r.value /\ UNCHANGED error
    /\ UNCHANGED <<now, rawInput, context, confidenceThreshold, enableDeferral,
                   sensibilityOutput, understandingOutput, humilityCheck, car>>

\* checkEpistemicBoundaries(output, threshold), called directly.
CallCheckEpistemicBoundaries(output, threshold) ==
    /\ pc = "idle"
    /\ UNCHANGED <<evaluatorVars, optionVars, concurrentVars, hookVars>>
    /\ pc' = "done"
    /\ entry' = "checkEpistemicBoundaries"
    /\ critiqueOutput' = output
    /\ confidenceThreshold' = threshold
    /\ humilityCheck' = checkEpistemicBoundaries(output, threshold)
    /\ UNCHANGED <<now, rawInput, context, enableDeferral, sensibilityOutput,
                   understandingOutput, reasonOutput, error, car>>

\* evaluateBlockchainAction(action), called directly.
CallEvaluateBlockchainAction(action) ==
    /\ pc = "idle"
    /\ pc' = "done"
    /\ entry' = "evaluateBlockchainAction"
    /\ blockchainAction' = action
    /\ verdict' = evaluateBlockchainAction(action)
    /\ UNCHANGED <<optionVars, concurrentVars, hookVars>>
    /\ UNCHANGED <<now, rawInput, context, confidenceThreshold, enableDeferral,
                   sensibilityOutput, understandingOutput, reasonOutput, critiqueOutput,
                   humilityCheck, error, car>>

Next ==
    \/ \E call \in Calls, options \in Options :
            BeforeRun(call.input, call.context, options.confidenceThreshold,
                      options.enableDeferral)
    \/ SensibilityStep
    \/ UnderstandingStep
    \/ ReasonStep
    \/ CritiqueStep
    \/ BeforeRunReturn
    \/ BeforeRunCatch
    \/ \E output \in AgentOutputs : AfterRun(output)
    \/ \E input \in TransactionRecords : CallUnderstandingLayer(input)
    \/ \E input \in EnrichedInputs : CallReasonLayer(input)
    \/ \E input \in ReasonInputs : CallCritiqueLayer(input)
    \/ \E output \in CritiqueOutputs, threshold \in Thresholds :
            CallCheckEpistemicBoundaries(output, threshold)
    \/ \E action \in BlockchainActions : CallEvaluateBlockchainAction(action)

Spec == Init /\ [][Next]_vars

(***************************************************************************)
(* Two invocations of carPipeline interleaved at the awaits                *)
(***************************************************************************)

\* The variables of the single call, the clock apart.
callVars == <<pc, entry, rawInput, context, confidenceThreshold, enableDeferral,
              sensibilityOutput, understandingOutput, reasonOutput, critiqueOutput,
              humilityCheck, error, car>>

Invocations == {1, 2}

\* The raw inputs of the interleaved invocations: one of each category, and
\* the inputs on which a stage raises.
ConcInputs ==
    {MkObj([hash |-> Str("0x123abc"), from |-> Str("0xUserAddress"), to |-> ScamAddress,
            value |-> Num(1001), chainId |-> Str("1")]),
     MkObj([content |-> Str("I want to BUY tokens"), sender |-> Str("0xUserAddress")]),
     MkObj([content |-> Num(5), sender |-> Str("0xUserAddress")]),
     MkObj([event |-> Str("Mint")]),
     Undefined}

\* The objects the caller passes: one raw input for each invocation, and the
\* context mapping both invocations are given.
CallerData ==
    {[inputs |-> <<a, b>>, context |-> c] : a \in ConcInputs, b \in ConcInputs, c \in Contexts}

\* A stage that recorded the message in the caller's conversationHistory.
StageWritesHistory(h) ==
    IF h.context.t = "object"
    THEN [h EXCEPT !.context =
            Obj([h.context.f EXCEPT !["conversationHistory"] =
                    Arr(Append(h.context.f["conversationHistory"].a, Str("seen")))])]
    ELSE h

\* The caller's objects after a stage has run: structureData keeps references
\* to context.previousTransactions and context.conversationHistory in the
\* record, and no stage assigns to or pushes onto the raw input, the context
\* or these arrays.
StageWrites(h) == h

ConcInit ==
    /\ pc = "idle"
    /\ entry = "none"
    /\ now = 1
    /\ rawInput = None
    /\ context = None
    /\ confidenceThreshold = DefaultThreshold
    /\ enableDeferral = TRUE
    /\ sensibilityOutput = None
    /\ understandingOutput = None
    /\ reasonOutput = None
    /\ critiqueOutput = None
    /\ humilityCheck = None
    /\ error = ""
    /\ car = None
    /\ blockchainAction = None
    /\ verdict = None
    /\ pipelineOptions = DefaultPipelineOptions
    /\ startTime = 0
    /\ warned = FALSE
    /\ afterRunResult = None
    /\ heap \in CallerData
    /\ supplied = heap
    /\ calls = [i \in Invocations |->
                  [pc |-> "idle", overlapped |-> FALSE, startTime |-> 0, t1 |-> 0, t2 |-> 0,
                   sensibilityOutput |-> None, understandingOutput |-> None,
                   reasonOutput |-> None, result |-> None]]

\* Invocation i is between its first await and its end.
InFlight(i) == calls[i].pc \in {"understanding", "reason", "critique"}

\* A stage of invocation i raised: carPipeline's catch rethrows.
ConcFailed(i, r) ==
    calls' = [calls EXCEPT ![i].pc = "failed", ![i].result = Wrapped(r)]

\* carPipeline is called for invocation i: it runs to its first await, that is
\* through sensibilityLayer, which reads the caller's objects and the clock.
Invoke(i) ==
    /\ calls[i].pc = "idle"
    /\ heap' = StageWrites(heap)
    /\ \E t1 \in now..MaxNow : \E t2 \in t1..MaxNow :
        LET r == sensibilityLayer([rawData |-> heap.inputs[i], context |-> heap.context],
                                  t1, t2)
            started == [c \in Invocations |->
                          IF c = i
                          THEN [calls[c] EXCEPT !.startTime = now, !.t1 = t1, !.t2 = t2,
                                                !.overlapped = \E o \in Invocations : InFlight(o)]
                          ELSE [calls[c] EXCEPT !.overlapped = @ \/ InFlight(c)]]
        IN /\ now' = t2
           /\ IF r.threw
              THEN calls' = [started EXCEPT ![i].pc = "failed", ![i].result = Wrapped(r)]
              ELSE calls' = [started EXCEPT ![i].pc = "understanding",
                                            ![i].sensibilityOutput = r.value]
    /\ UNCHANGED <<callVars, evaluatorVars, optionVars, supplied, hookVars>>

\* Invocation i resumes after `await sensibilityLayer(...)`.
ConcUnderstanding(i) ==
    /\ calls[i].pc = "understanding"
    /\ heap' = StageWrites(heap)
    /\ LET r == understandingLayer(calls[i].sensibilityOutput)
       IN IF r.threw
          THEN ConcFailed(i, r)
          ELSE calls' = [calls EXCEPT ![i].pc = "reason", ![i].understandingOutput = r.value]
    /\ UNCHANGED <<callVars, now, evaluatorVars, optionVars, supplied, hookVars>>

\* Invocation i resumes after `await understandingLayer(...)`.
ConcReason(i) ==
    /\ calls[i].pc = "reason"
    /\ heap' = StageWrites(heap)
    /\ calls' = [calls EXCEPT ![i].pc = "critique",
                              ![i].reasonOutput = reasonLayer(calls[i].understandingOutput)]
    /\ UNCHANGED <<callVars, now, evaluatorVars, optionVars, supplied, hookVars>>

\* Invocation i resumes after `await reasonLayer(...)` and runs to its end.
ConcCritique(i) ==
    /\ calls[i].pc = "critique"
    /\ heap' = StageWrites(heap)
    /\ LET r == critiqueLayer(calls[i].reasonOutput)
       IN IF r.threw
          THEN ConcFailed(i, r)
          ELSE IF AfterTimeCheck(r.value, now - calls[i].startTime,
                                 DefaultMaxProcessingTime).threw
          THEN ConcFailed(i, AfterTimeCheck(r.value, now - calls[i].startTime,
                                            DefaultMaxProcessingTime))
          ELSE calls' = [calls EXCEPT ![i].pc = "returned",
                            ![i].result = AfterTimeCheck(r.value, now - calls[i].startTime,
                                                         DefaultMaxProcessingTime)]
    /\ UNCHANGED <<callVars, now, evaluatorVars, optionVars, supplied, hookVars>>

ConcNext ==
    \/ \E i \in Invocations : Invoke(i)
    \/ \E i \in Invocations : ConcUnderstanding(i)
    \/ \E i \in Invocations : ConcReason(i)
    \/ \E i \in Invocations : ConcCritique(i)

ConcSpec == ConcInit /\ [][ConcNext]_vars


(***************************************************************************)
(* Properties                                                              *)
(***************************************************************************)

\* A CritiqueResult has been returned by critiqueLayer, called directly or as
\* the last stage of the pipeline.
CritiqueReturned == entry \in {"critiqueLayer", "beforeRun"} /\ critiqueOutput # None

\* C1: for every list of candidate actions given to the Critique Aggregator,
\* the confidence of the returned CritiqueResult lies between 0 and 1
\* (0 and 100 hundredths).
C1_ConfidenceInRange ==
    CritiqueReturned =>
        /\ 0 <= critiqueOutput.confidence
        /\ critiqueOutput.confidence <= FullConfidence

\* Four rejected actions and four uncertainties: the deductions sum to 1.2, and
\* the confidence returned is 0.
C1_FloorReached ==
    /\ entry = "critiqueLayer"
    /\ critiqueOutput # None
    /\ Len(critiqueOutput.rejectedActions) = 4
    /\ Len(critiqueOutput.uncertainties) = 4
    /\ critiqueOutput.confidence = 0

\* A boundary decision has been returned by checkEpistemicBoundaries of the
\* pipeline module, called directly or by beforeRun.
BoundaryDecided ==
    entry \in {"checkEpistemicBoundaries", "beforeRun"} /\ humilityCheck # None

\* C2: decideBoundary returns shouldDefer = true if and only if confidence <
\* threshold, or limitations is non-empty, or uncertainties is non-empty; the
\* reason is that of the first condition that holds in the order low
\* confidence, limitations, uncertainties, and 'Within epistemic boundaries'
\* when none holds.
C2_DefersIffOutsideBoundaries ==
    BoundaryDecided =>
        LET low == critiqueOutput.confidence < confidenceThreshold
            limited == critiqueOutput.limitations # <<>>
            uncertain == critiqueOutput.uncertainties # <<>>
        IN /\ humilityCheck.shouldDefer <=> (low \/ limited \/ uncertain)
           /\ low => StartsWith(humilityCheck.reason, "Low confidence (")
           /\ (~low /\ limited) => StartsWith(humilityCheck.reason, "Limitations detected: ")
           /\ (~low /\ ~limited /\ uncertain)
                => StartsWith(humilityCheck.reason, "Uncertainties present: ")
           /\ ~(low \/ limited \/ uncertain)
                => humilityCheck.reason = "Within epistemic boundaries"

\* All three conditions hold at once, and the reason is the low confidence.
C2_AllThreeConditionsHold ==
    /\ entry = "checkEpistemicBoundaries"
    /\ critiqueOutput.confidence = 50
    /\ confidenceThreshold = DefaultThreshold
    /\ critiqueOutput.limitations # <<>>
    /\ critiqueOutput.uncertainties # <<>>
    /\ humilityCheck.shouldDefer
    /\ humilityCheck.reason = "Low confidence (0.50) below threshold of 0.7"

\* The Ethical Evaluator approves `action` (for an action it gives a verdict on).
EvaluatorApproves(action) == categoricalImperative(action).approved
EvaluatorRejects(action) == ~categoricalImperative(action).approved

\* C3: the Critique Aggregator places each proposed action in exactly one of
\* approvedActions and rejectedActions, approved iff the Ethical Evaluator
\* approves it; both lists keep the proposer's order; their lengths sum to the
\* number of proposed actions; limitations has one entry per rejected action,
\* in the order of the rejected actions.
C3_PartitionInOrder ==
    CritiqueReturned =>
        /\ critiqueOutput.approvedActions
             = SelectSeq(reasonOutput.proposedActions, EvaluatorApproves)
        /\ critiqueOutput.rejectedActions
             = SelectSeq(reasonOutput.proposedActions, EvaluatorRejects)
        /\ Len(critiqueOutput.approvedActions) + Len(critiqueOutput.rejectedActions)
             = Len(reasonOutput.proposedActions)
        /\ Len(critiqueOutput.limitations) = Len(critiqueOutput.rejectedActions)
        /\ \A i \in 1..Len(critiqueOutput.rejectedActions) :
             critiqueOutput.limitations[i]
               = "Ethical constraint: "
                   \o categoricalImperative(critiqueOutput.rejectedActions[i]).reason

\* Two different rejected actions around an approved one.
C3_RejectedAroundApproved ==
    /\ entry = "critiqueLayer"
    /\ critiqueOutput # None
    /\ Len(reasonOutput.proposedActions) = 3
    /\ EvaluatorRejects(reasonOutput.proposedActions[1])
    /\ EvaluatorApproves(reasonOutput.proposedActions[2])
    /\ EvaluatorRejects(reasonOutput.proposedActions[3])
    /\ critiqueOutput.limitations[1] # critiqueOutput.limitations[2]
    /\ critiqueOutput.rejectedActions
         = <<reasonOutput.proposedActions[1], reasonOutput.proposedActions[3]>>

\* The content of `action` is a text that contains w.
ContentContains(action, w) ==
    /\ Get(action.params, "content").t = "string"
    /\ Includes(Get(action.params, "content").s, w)

\* The sub-tests an action fails as the specification lists them (a force
\* parameter counts when it is truthy).
ListedUniversalizability(action) ==
    \/ action.action = "executeTransaction" /\ Lt(Get(action.params, "value"), 0)
    \/ action.action = "respondToMessage" /\ ContentContains(action, "mislead")
ListedHumanity(action) ==
    \/ action.action = "executeTransaction" /\ Truthy(Get(action.params, "force"))
    \/ action.action = "respondToMessage" /\ ContentContains(action, "manipulate")
ListedKingdom(action) ==
    \/ action.action = "executeTransaction" /\ Get(action.params, "to") = ScamAddress
    \/ action.action = "respondToMessage" /\ ContentContains(action, "hate speech")

\* The verdict and the head of the reason the specification gives `action`.
ListedVerdict(action) ==
    IF ListedUniversalizability(action)
        THEN [verdict |-> "Rejected", reason |-> "Fails universalizability: "]
    ELSE IF ListedHumanity(action)
        THEN [verdict |-> "Rejected", reason |-> "Fails humanity as end: "]
    ELSE IF ListedKingdom(action)
        THEN [verdict |-> "Rejected", reason |-> "Fails kingdom of ends: "]
    ELSE [verdict |-> "Approved", reason |-> "Action passes all three formulations"]

\* C4: the Ethical Evaluator rejects an action if and only if it is an
\* executeTransaction with value < 0, with a force parameter or with to =
\* '0xknownScamAddress', or a respondToMessage whose content contains
\* 'mislead', 'manipulate' or 'hate speech'; every other action name and
\* parameter combination is approved; the reason is that of the earliest
\* failing sub-test.  Stated on a direct call of critiqueLayer: every action of
\* the list gets the listed verdict.
C4_RejectsExactlyTheListed ==
    (entry = "critiqueLayer" /\ pc = "done") =>
        /\ error = ""
        /\ critiqueOutput # None
        /\ \A i \in 1..Len(reasonOutput.proposedActions) :
             /\ critiqueOutput.explanation.lines[i].verdict
                  = ListedVerdict(reasonOutput.proposedActions[i]).verdict
             /\ StartsWith(critiqueOutput.explanation.lines[i].reason,
                           ListedVerdict(reasonOutput.proposedActions[i]).reason)

\* "has f": the field is present and not empty (JavaScript truthiness).
Has(data, f) == Truthy(Get(data, f))

\* The category the specification's priority order gives `data`.
ListedCategory(data) ==
    IF Has(data, "hash") /\ Has(data, "from") /\ Has(data, "to") THEN "transaction"
    ELSE IF Has(data, "content") \/ Has(data, "message") THEN "message"
    ELSE IF Has(data, "event") THEN "event"
    ELSE IF Get(data, "inputType") = Str("user") THEN "userInput"
    ELSE "unknown"

\* C5: the Data Classifier is total: for every input value, non-record values
\* and records with present but empty fields included, it returns one of the
\* five categories and never fails, and the category is the earliest match in
\* the order transaction, message, event, userInput, unknown.  Stated on the
\* pipeline once its first stage has run.
C5_ClassifierTotal ==
    (entry = "beforeRun" /\ pc \notin {"idle", "sensibility"}) =>
        /\ sensibilityOutput # None
        /\ sensibilityOutput.metadata.dataType = ListedCategory(rawInput)

\* The approved executeTransaction actions with value > 1000.
ApprovedHighValue(output) ==
    {i \in 1..Len(output.approvedActions) :
        /\ output.approvedActions[i].action = "executeTransaction"
        /\ Gt(Get(output.approvedActions[i].params, "value"), 1000)}

\* C6: the confidence computed by the Critique Aggregator equals
\* max(0, 1.0 - 0.2 * rejected - 0.1 * uncertainties - 0.1 * approved
\* executeTransaction actions with value > 1000), in hundredths.
C6_ConfidenceFormula ==
    CritiqueReturned =>
        critiqueOutput.confidence
          = Max(0, 100 - 20 * Len(critiqueOutput.rejectedActions)
                       - 10 * Len(critiqueOutput.uncertainties)
                       - 10 * Cardinality(ApprovedHighValue(critiqueOutput)))

\* One rejected action, two uncertainties and one approved high-value
\* transaction: 1.0 - 0.2 - 0.2 - 0.1.
C6_EveryDeductionApplies ==
    /\ entry = "critiqueLayer"
    /\ critiqueOutput # None
    /\ Len(critiqueOutput.rejectedActions) = 1
    /\ Len(critiqueOutput.uncertainties) = 2
    /\ Cardinality(ApprovedHighValue(critiqueOutput)) = 1
    /\ critiqueOutput.confidence = 50

\* The Action Proposer has returned, called directly or as the third stage of
\* the pipeline.
ReasonReturned == entry \in {"reasonLayer", "beforeRun"} /\ reasonOutput # None

\* The names of the proposed actions.
ProposedNames == {reasonOutput.proposedActions[i].action :
                    i \in 1..Len(reasonOutput.proposedActions)}

\* C7: the actions proposed are a function of category and enriched fields:
\* transaction: verifyRecipient and checkGasPrice always, executeTransaction
\* iff value > 0, monitorTransaction iff risk == high; message:
\* respondToMessage always, searchForAnswer iff intent == question; event:
\* exactly one logEvent; userInput and unknown: no action and an empty
\* reasoning.  No action is proposed twice.
C7_ProposalsByCategory ==
    ReasonReturned =>
        LET cd == understandingOutput.categorizedData
            category == understandingOutput.metadata.dataType
        IN /\ Len(reasonOutput.proposedActions) = Cardinality(ProposedNames)
           /\ category = "transaction" =>
                ProposedNames
                  = {"verifyRecipient", "checkGasPrice"}
                    \cup (IF Gt(Get(cd, "value"), 0) THEN {"executeTransaction"} ELSE {})
                    \cup (IF Get(cd, "risk") = Str("high")
                          THEN {"monitorTransaction"} ELSE {})
           /\ category = "message" =>
                ProposedNames
                  = {"respondToMessage"}
                    \cup (IF Get(cd, "intent") = Str("question")
                          THEN {"searchForAnswer"} ELSE {})
           /\ category = "event" => ProposedNames = {"logEvent"}
           /\ category \in {"userInput", "unknown"} =>
                /\ reasonOutput.proposedActions = <<>>
                /\ reasonOutput.reasoning = <<>>

\* A transaction of value 0 with high risk: monitored but not executed.
C7_ZeroValueHighRisk ==
    /\ entry = "reasonLayer"
    /\ understandingOutput.metadata.dataType = "transaction"
    /\ Get(understandingOutput.categorizedData, "value") = Num(0)
    /\ Get(understandingOutput.categorizedData, "risk") = Str("high")
    /\ ProposedNames = {"verifyRecipient", "checkGasPrice", "monitorTransaction"}

\* The pipeline was given a transaction with to = '0xknownScamAddress' and
\* value > 0, and has ended.
ScamTransactionRun ==
    /\ entry = "beforeRun"
    /\ pc \in {"returned", "failed", "done"}
    /\ ListedCategory(rawInput) = "transaction"
    /\ Get(rawInput, "to") = ScamAddress
    /\ Gt(Get(rawInput, "value"), 0)

\* rawInput sent to the recipient `to` instead.
SentTo(to) == Obj([rawInput.f EXCEPT !["to"] = to])

\* The confidence of the pipeline's result for rawInput sent to `to`.
ConfidenceSentTo(to) == carPipeline(SentTo(to), context, now, now).value.confidence

\* What C8 states apart from the size of the confidence gap: executeTransaction
\* is rejected with a kingdom-of-ends reason, limitations is non-empty and
\* decideBoundary defers for every threshold.
ScamRejectedAndDeferred ==
    /\ critiqueOutput # None
    /\ \E i \in 1..Len(critiqueOutput.rejectedActions) :
         critiqueOutput.rejectedActions[i].action = "executeTransaction"
    /\ \A i \in 1..Len(critiqueOutput.approvedActions) :
         critiqueOutput.approvedActions[i].action # "executeTransaction"
    /\ \E i \in 1..Len(critiqueOutput.explanation.lines) :
         /\ critiqueOutput.explanation.lines[i].action = "executeTransaction"
         /\ critiqueOutput.explanation.lines[i].verdict = "Rejected"
         /\ StartsWith(critiqueOutput.explanation.lines[i].reason, "Fails kingdom of ends: ")
    /\ critiqueOutput.limitations # <<>>
    /\ \A threshold \in Thresholds :
         checkEpistemicBoundaries(critiqueOutput, threshold).shouldDefer

\* C8 as amended: for every transaction input whose to is
\* '0xknownScamAddress' and whose value is > 0, executeTransaction is rejected
\* with a kingdom-of-ends reason, limitations is non-empty, decideBoundary
\* defers for every threshold, and the confidence is lower than for the same
\* transaction sent to a non-scam address by 0.2 when value <= 1000 and by 0.1
\* when value > 1000.
C8_ScamTransactionDeferred ==
    ScamTransactionRun =>
        /\ ScamRejectedAndDeferred
        /\ \A to \in Recipients \ {ScamAddress} :
             /\ ~carPipeline(SentTo(to), context, now, now).threw
             /\ ConfidenceSentTo(to) - critiqueOutput.confidence
                  = IF Gt(Get(rawInput, "value"), 1000) THEN 10 ELSE 20

\* A scam transaction of value 1001 has run: confidence 0.7, against 0.8 for
\* the same transaction sent elsewhere.
C8_HighValueScamTransaction ==
    /\ ScamTransactionRun
    /\ Get(rawInput, "value") = Num(1001)
    /\ critiqueOutput # None
    /\ critiqueOutput.confidence = 70
    /\ ConfidenceSentTo(Str("0xRecipientAddress")) = 80

\* C8 as stated: as above, with the confidence 0.2 lower than for the same
\* transaction sent to a non-scam address whatever the value.
C8_ScamTransactionAlwaysTwoTenthsLower ==
    ScamTransactionRun =>
        /\ ScamRejectedAndDeferred
        /\ \A to \in Recipients \ {ScamAddress} :
             /\ ~carPipeline(SentTo(to), context, now, now).threw
             /\ ConfidenceSentTo(to) - critiqueOutput.confidence = 20

\* The pipeline was given an input classified as unknown or userInput.
UnknownOrUserInputRun ==
    /\ entry = "beforeRun"
    /\ sensibilityOutput # None
    /\ sensibilityOutput.metadata.dataType \in {"unknown", "userInput"}

\* C9: for every input classified as unknown or userInput, the pipeline
\* returns a CritiqueResult with zero proposed actions: approvedActions,
\* rejectedActions, limitations and uncertainties are empty and confidence is
\* 1.0.
C9_NothingProposedFullConfidence ==
    UnknownOrUserInputRun =>
        /\ pc # "failed"
        /\ reasonOutput # None => reasonOutput.proposedActions = <<>>
        /\ critiqueOutput # None =>
             /\ critiqueOutput.approvedActions = <<>>
             /\ critiqueOutput.rejectedActions = <<>>
             /\ critiqueOutput.limitations = <<>>
             /\ critiqueOutput.uncertainties = <<>>
             /\ critiqueOutput.confidence = FullConfidence

\* A userInput has gone through the four stages.
C9_UserInputReturned ==
    /\ UnknownOrUserInputRun
    /\ sensibilityOutput.metadata.dataType = "userInput"
    /\ pc = "returned"
    /\ critiqueOutput # None
    /\ critiqueOutput.confidence = FullConfidence

\* A record with none of the fields the classifier reads.
Unclassifiable(data) ==
    /\ data.t = "object"
    /\ DOMAIN data.f \cap {"hash", "from", "to", "content", "message", "event",
                           "inputType"} = {}

\* C10: an input the system cannot classify, run through beforeRun with
\* deferral enabled and the default threshold 0.7, is deferred to human
\* judgment: context.car.deferred is true.
C10_UnclassifiableIsDeferred ==
    (/\ entry = "beforeRun"
     /\ pc = "done"
     /\ enableDeferral
     /\ confidenceThreshold = DefaultThreshold
     /\ Unclassifiable(rawInput)) => car.deferred

\* evaluateBlockchainAction has been called on an action of the table that has
\* a params record.
MonetaryActionEvaluated ==
    /\ entry = "evaluateBlockchainAction"
    /\ blockchainAction.action \in blockchainActions
    /\ blockchainAction.params.t = "object"

\* The required parameters of the action are not all there, and the reason
\* the specification gives for it ("" when they are).
ListedMissing(action) ==
    LET missing(k) == ~Truthy(Get(action.params, k))
    IN CASE action.action = "executeTransaction" /\ missing("to") ->
                "Missing recipient address"
         [] action.action = "deployContract" /\ missing("bytecode") ->
                "Missing contract bytecode"
         [] action.action = "callContract" /\ (missing("to") \/ missing("data")) ->
                "Missing contract address or call data"
         [] action.action = "signMessage" /\ missing("message") ->
                "Missing message to sign"
         [] action.action = "approveToken"
              /\ (missing("token") \/ missing("spender") \/ missing("amount")) ->
                "Missing token approval parameters (token, spender, or amount)"
         [] action.action = "transferToken"
              /\ (missing("token") \/ missing("to") \/ missing("amount")) ->
                "Missing token transfer parameters (token, recipient, or amount)"
         [] OTHER -> ""

\* The recipient is a text that starts with w.
RecipientStartsWith(action, w) ==
    /\ Get(action.params, "to").t = "string"
    /\ StartsWith(Get(action.params, "to").s, w)

\* The verdict, and the head of the reason, that the checks give in the order
\* required parameters, recipient address, contract safety, value ceiling.
ListedMonetaryVerdict(action) ==
    IF ListedMissing(action) # ""
        THEN [approved |-> FALSE, reason |-> ListedMissing(action)]
    ELSE IF Get(action.params, "to") \in {Str("0xknownScamAddress"), Str("0xanotherScam")}
        THEN [approved |-> FALSE, reason |-> "Malicious recipient address: "]
    ELSE IF RecipientStartsWith(action, "0x000")
        THEN [approved |-> FALSE, reason |-> "Suspicious recipient address: "]
    ELSE IF /\ Get(action.params, "data").t = "string"
            /\ Len(Get(action.params, "data").s) > 2
            /\ ~RecipientStartsWith(action, "0xsafe")
        THEN [approved |-> FALSE, reason |-> "Unsafe contract interaction: "]
    ELSE IF Gt(Get(action.params, "value"), 1000)
        THEN [approved |-> FALSE, reason |-> "Transaction value exceeds maximum allowed limit"]
    ELSE [approved |-> TRUE, reason |-> "Blockchain action passed all ethical checks"]

\* C11: evaluateMonetaryAction applies its checks in the order required
\* parameters, recipient address, contract safety (call data longer than 2
\* characters and recipient not 0xsafe-prefixed is rejected), value ceiling;
\* it returns the reason of the first failing check and approves iff no check
\* fails; transferToken with empty params is rejected for its missing
\* parameters.
C11_FirstFailingCheckWins ==
    MonetaryActionEvaluated =>
        /\ ~verdict.threw
        /\ verdict.approved = ListedMonetaryVerdict(blockchainAction).approved
        /\ StartsWith(verdict.reason, ListedMonetaryVerdict(blockchainAction).reason)

\* evaluateBlockchainAction has been called on an action whose name is not in
\* the table.
OtherActionEvaluated ==
    /\ entry = "evaluateBlockchainAction"
    /\ blockchainAction.action
         \notin {"executeTransaction", "deployContract", "callContract", "signMessage",
                 "approveToken", "transferToken"}

\* C12: evaluateMonetaryAction approves every action whose name is not one of
\* the six monetary names, whatever its parameters, and with no params at all.
C12_OtherActionsApproved ==
    OtherActionEvaluated =>
        /\ ~verdict.threw
        /\ verdict.approved
        /\ verdict.reason = "Not a blockchain action"

\* An action named like a monetary one but for the case, sent to the scam
\* address with call data and a value over the ceiling, is approved.
C12_OtherActionWithBadParams ==
    /\ OtherActionEvaluated
    /\ blockchainAction.action = "ExecuteTransaction"
    /\ blockchainAction.params.t = "object"
    /\ Get(blockchainAction.params, "to") = ScamAddress
    /\ Get(blockchainAction.params, "value") = Num(1001)
    /\ Get(blockchainAction.params, "data") = Str("0xselfdestruct")
    /\ verdict.approved

\* C13 as amended: the parameter check (validateActionParams) answers an
\* action name outside the table with the rejection 'Unknown blockchain
\* action', not an error; submitted to evaluateMonetaryAction, such an action
\* does not reach the parameter check and is not rejected.
C13_UnknownActionOnlyInParameterCheck ==
    OtherActionEvaluated =>
        /\ validateActionParams(blockchainAction) = Invalid("Unknown blockchain action")
        /\ ~verdict.threw
        /\ verdict.approved
        /\ verdict.reason # "Unknown blockchain action"

\* An action of an unknown name and without params has been evaluated.
C13_UnknownActionWithoutParams ==
    /\ OtherActionEvaluated
    /\ blockchainAction.action = "swapToken"
    /\ blockchainAction.params = Undefined
    /\ validateActionParams(blockchainAction).reason = "Unknown blockchain action"
    /\ verdict = Approved("Not a blockchain action")

\* C13 as stated: an action whose name is outside the table, submitted to the
\* monetary-action evaluator, is rejected with reason 'Unknown blockchain
\* action'.
C13_UnknownActionRejected ==
    OtherActionEvaluated =>
        /\ ~verdict.threw
        /\ ~verdict.approved
        /\ verdict.reason = "Unknown blockchain action"

\* C14: for every candidate action that has a params mapping,
\* evaluateMonetaryAction returns a verdict and never raises.
C14_EvaluatorNeverRaises ==
    (entry = "evaluateBlockchainAction" /\ blockchainAction.params.t = "object")
        => ~verdict.threw

\* C15: for every raw input, records with missing or wrongly-typed fields
\* included, evaluate (carPipeline) returns a CritiqueResult and raises no
\* PipelineFailure.  Stated for the raw inputs that are records (the inputs
\* null and undefined are the case of C5).
C15_MalformedInputTolerated ==
    (entry = "beforeRun" /\ rawInput.t = "object") =>
        /\ pc # "failed"
        /\ error = ""
        /\ pc \in {"returned", "done"} => critiqueOutput # None

\* The outcome of an invocation of carPipeline on rawInput and context that
\* runs when the clock shows t.
InvocationAt(t) == carPipeline(rawInput, context, t, t)

\* C16: evaluate is deterministic: two invocations with the same raw input and
\* the same context return equal CritiqueResults, whatever the time at which
\* each runs.  Stated on a returned result: it equals the result of an
\* invocation at every time of the clock.
C16_SameResultAtEveryTime ==
    (entry = "beforeRun" /\ critiqueOutput # None) =>
        \A t \in 1..MaxNow :
            /\ ~InvocationAt(t).threw
            /\ InvocationAt(t).value = critiqueOutput

\* The outcome of stages 2 to 4 on the normalised record of the state: what
\* carPipeline returns or raises when no option is read.
StagesAlone == Wrapped(AfterSensibility(Return(sensibilityOutput)))

DerivedFields(category) ==
    CASE category = "transaction" -> {"transactionType", "risk"}
      [] category = "message" -> {"intent", "sentiment"}
      [] category = "event" -> {"eventCategory"}
      [] OTHER -> {}

\* The Enricher has returned in the pipeline.
Enriched == entry = "beforeRun" /\ understandingOutput # None

\* C19: the Enricher never changes a field of the StructuredRecord: every
\* field of the input record is in the EnrichedRecord with the same value, the
\* only differences are the derived fields of the category, and the input
\* record itself is as the Normalizer returned it.
C19_EnricherOnlyAdds ==
    Enriched =>
        LET before == sensibilityOutput.categorizedData.f
            after == understandingOutput.categorizedData.f
            added == DerivedFields(sensibilityOutput.metadata.dataType)
        IN /\ DOMAIN before \cap added = {}
           /\ DOMAIN after = DOMAIN before \cup added
           /\ \A k \in DOMAIN before : after[k] = before[k]
           /\ understandingOutput.metadata = sensibilityOutput.metadata
           /\ \E t1 \in 1..MaxNow, t2 \in 1..MaxNow :
                sensibilityLayer([rawData |-> rawInput, context |-> context], t1, t2)
                  = Return(sensibilityOutput)

\* A high-value transaction has been enriched.
C19_TransactionEnriched ==
    /\ Enriched
    /\ sensibilityOutput.metadata.dataType = "transaction"
    /\ Get(sensibilityOutput.categorizedData, "value") = Num(1001)
    /\ Get(understandingOutput.categorizedData, "value") = Num(1001)
    /\ Get(understandingOutput.categorizedData, "risk") = Str("high")
    /\ Get(understandingOutput.categorizedData, "transactionType") = Str("ERC20-transfer")

\* C20: a raw input that has hash and from but no to address is tolerated as a
\* transaction: it is normalized with the transaction schema and enriched with
\* transactionType = contract-deployment and risk = high, so that
\* monitorTransaction is proposed for it.
C20_DeploymentIsTransaction ==
    (/\ entry = "beforeRun"
     /\ pc \notin {"idle", "sensibility"}
     /\ Has(rawInput, "hash") /\ Has(rawInput, "from") /\ ~Has(rawInput, "to")) =>
        /\ sensibilityOutput # None
        /\ sensibilityOutput.metadata.dataType = "transaction"
        /\ understandingOutput # None =>
             /\ Get(understandingOutput.categorizedData, "transactionType")
                  = Str("contract-deployment")
             /\ Get(understandingOutput.categorizedData, "risk") = Str("high")
        /\ reasonOutput # None =>
             \E i \in 1..Len(reasonOutput.proposedActions) :
                reasonOutput.proposedActions[i].action = "monitorTransaction"

\* Invocation i has ended, with a result or a raise.
Ended(i) == calls[i].pc \in {"returned", "failed"}

\* C17: when two invocations are interleaved at the stage boundaries of
\* carPipeline, each one ends as it ends when run alone on the objects the
\* caller supplied (with the same readings of the clock), and the raw inputs
\* and the context mapping of the caller are unchanged.
C17_InterleavedAsAlone ==
    /\ heap = supplied
    /\ \A i \in Invocations :
         Ended(i) => calls[i].result = carPipeline(supplied.inputs[i], supplied.context,
                                                   calls[i].t1, calls[i].t2)

\* A message and a transaction, given the same context mapping, were both in
\* flight at once and have both returned.
C17_BothReturnedInterleaved ==
    /\ calls[1].pc = "returned" /\ calls[2].pc = "returned"
    /\ calls[1].overlapped /\ calls[2].overlapped
    /\ supplied.context.t = "object"
    /\ Has(supplied.inputs[1], "content") /\ Has(supplied.inputs[2], "hash")
    /\ Len(calls[1].result.value.approvedActions) = 1
    /\ Len(calls[2].result.value.rejectedActions) = 1

\* The Enricher has returned a transaction record, in the pipeline or called
\* directly.
TransactionEnriched ==
    /\ entry \in {"beforeRun", "understandingLayer"}
    /\ understandingOutput # None
    /\ understandingOutput.metadata.dataType = "transaction"

\* C21: for every transaction record the Enricher sets risk = high if and
\* only if value > 1000, or to is absent, or data is longer than 1000
\* characters, and low otherwise; value 1000 and data of 1000 characters give
\* low.
C21_RiskHighIff ==
    TransactionEnriched =>
        LET tx == understandingOutput.categorizedData.f
            high == \/ tx["value"].t = "number" /\ tx["value"].n > 1000
                    \/ tx["to"] = Undefined
                    \/ tx["data"].t = "string" /\ Len(tx["data"].s) > 1000
        IN tx["risk"] = IF high THEN Str("high") ELSE Str("low")

\* A record with value 1000, data of 1000 characters and a recipient has been
\* given risk low.
C21_AtTheThresholdsLow ==
    /\ TransactionEnriched
    /\ Get(understandingOutput.categorizedData, "value") = Num(1000)
    /\ Length(Get(understandingOutput.categorizedData, "data")) = Num(1000)
    /\ Get(understandingOutput.categorizedData, "to") = Str("0xB")
    /\ Get(understandingOutput.categorizedData, "risk") = Str("low")

\* An executeTransaction with value > 1000, or a respondToMessage whose
\* content is longer than 500 characters.
BeyondBoundaries(action) ==
    \/ /\ action.action = "executeTransaction"
       /\ Get(action.params, "value").t = "number"
       /\ Get(action.params, "value").n > 1000
    \/ /\ action.action = "respondToMessage"
       /\ Get(action.params, "content").t = "string"
       /\ Len(Get(action.params, "content").s) > 500

\* C22: the aggregator records an uncertainty for an action exactly when it
\* is an executeTransaction with value > 1000 or a respondToMessage with
\* content longer than 500 characters, whether the Ethical Evaluator approved
\* or rejected it; an action both rejected and uncertain contributes one
\* limitation and one uncertainty.
C22_UncertaintyWhateverTheVerdict ==
    CritiqueReturned =>
        /\ Len(critiqueOutput.uncertainties)
             = Len(SelectSeq(reasonOutput.proposedActions, BeyondBoundaries))
        /\ Len(critiqueOutput.limitations)
             = Len(SelectSeq(reasonOutput.proposedActions, EvaluatorRejects))

\* One action, a high-value transaction to the scam address: rejected, with
\* one limitation and one uncertainty.
C22_RejectedAndUncertain ==
    /\ entry = "critiqueLayer"
    /\ critiqueOutput # None
    /\ Len(reasonOutput.proposedActions) = 1
    /\ BeyondBoundaries(reasonOutput.proposedActions[1])
    /\ critiqueOutput.rejectedActions = reasonOutput.proposedActions
    /\ Len(critiqueOutput.limitations) = 1
    /\ Len(critiqueOutput.uncertainties) = 1

\* beforeRun has completed after the pipeline raised.
PipelineErrorHandled == entry = "beforeRun" /\ pc = "done" /\ error # ""

\* C23: when the pipeline raises inside beforeRun, beforeRun completes with
\* context.car = {error: 'Pipeline failed: ...', deferred: true, deferReason:
\* 'Pipeline error occurred'} and no partial critique fields; a following
\* afterRun on that context, with the default options, completes normally and
\* returns an output with deferred = true and the message
\* '<deferralMessage>: Pipeline error occurred'.
C23_ErrorContextThenDeferral ==
    PipelineErrorHandled =>
        /\ car = [error |-> error, deferred |-> TRUE,
                  deferReason |-> "Pipeline error occurred"]
        /\ StartsWith(error, "Pipeline failed: ")
        /\ afterRunResult # None =>
             /\ ~afterRunResult.threw
             /\ afterRunResult.value.deferred
             /\ afterRunResult.value.message
                  = "I need to defer to human judgment: Pipeline error occurred"

\* carPipeline has returned a CritiqueResult to beforeRun.
PipelineReturned == entry = "beforeRun" /\ critiqueOutput # None

\* C24: for every raw input and context for which the pipeline returns, the
\* confidence is 1.0, 0.8 or 0.7, so at least 0.7, the proposer having emitted
\* at most one executeTransaction; at the default threshold 0.7 the boundary
\* check never defers for low confidence, and every deferral of a pipeline
\* result is due to limitations or uncertainties.
C24_PipelineConfidenceAtLeastThreshold ==
    PipelineReturned =>
        /\ critiqueOutput.confidence \in {100, 80, 70}
        /\ critiqueOutput.confidence >= DefaultThreshold
        /\ Cardinality({i \in 1..Len(reasonOutput.proposedActions) :
                          reasonOutput.proposedActions[i].action = "executeTransaction"}) <= 1
        /\ (pc = "done" /\ confidenceThreshold = DefaultThreshold /\ car.deferred) =>
             /\ ~StartsWith(car.deferReason, "Low confidence")
             /\ \/ critiqueOutput.limitations # <<>>
                \/ critiqueOutput.uncertainties # <<>>

\* A run with confidence 0.7 at the default threshold: deferred, for its
\* limitations.
C24_DeferredAtSevenTenths ==
    /\ PipelineReturned
    /\ pc = "done"
    /\ confidenceThreshold = DefaultThreshold
    /\ critiqueOutput.confidence = 70
    /\ car.deferred
    /\ StartsWith(car.deferReason, "Limitations detected: ")

\* The pipeline was given an input classified as transaction.
TransactionRun ==
    /\ entry = "beforeRun"
    /\ sensibilityOutput # None
    /\ sensibilityOutput.metadata.dataType = "transaction"

\* C25: for every input classified as transaction the pipeline returns,
\* approvedActions of its result is non-empty and its first element is
\* verifyRecipient; executeTransaction is never the first approved action,
\* whatever the value and the recipient.
C25_VerifyRecipientIsPrimary ==
    TransactionRun =>
        /\ pc # "failed"
        /\ pc \in {"returned", "done"} => critiqueOutput # None
        /\ critiqueOutput # None =>
             /\ critiqueOutput.approvedActions # <<>>
             /\ critiqueOutput.approvedActions[1].action = "verifyRecipient"

\* A transaction of value 2 to a plain recipient has run: executeTransaction
\* is approved, in second place.
C25_ExecuteApprovedSecond ==
    /\ TransactionRun
    /\ critiqueOutput # None
    /\ Get(rawInput, "value") = Num(2)
    /\ Len(critiqueOutput.approvedActions) = 3
    /\ critiqueOutput.approvedActions[1].action = "verifyRecipient"
    /\ critiqueOutput.approvedActions[2].action = "executeTransaction"

\* The pipeline was given an input classified as message whose content is a
\* string.
TextMessageRun ==
    /\ entry = "beforeRun"
    /\ sensibilityOutput # None
    /\ sensibilityOutput.metadata.dataType = "message"
    /\ Get(sensibilityOutput.categorizedData, "content").t = "string"

\* C26: for every input classified as message with string content, the
\* pipeline rejects nothing and flags nothing, whatever the text says:
\* rejectedActions, limitations and uncertainties are empty, the confidence is
\* 1.0, and the boundary check does not defer for any threshold up to 1.0.
C26_MessagesNeverRejected ==
    TextMessageRun =>
        /\ pc # "failed"
        /\ pc \in {"returned", "done"} => critiqueOutput # None
        /\ critiqueOutput # None =>
             /\ critiqueOutput.rejectedActions = <<>>
             /\ critiqueOutput.limitations = <<>>
             /\ critiqueOutput.uncertainties = <<>>
             /\ critiqueOutput.confidence = FullConfidence
             /\ \A threshold \in {t \in Thresholds : t <= FullConfidence} :
                  ~checkEpistemicBoundaries(critiqueOutput, threshold).shouldDefer
        /\ (pc = "done" /\ confidenceThreshold <= FullConfidence) => ~car.deferred

\* A message of more than 500 characters that ends in "hate speech" has run
\* with deferral enabled and the threshold 1.0: the response is approved and
\* nothing is deferred.
C26_LongHatefulMessageNotDeferred ==
    /\ TextMessageRun
    /\ pc = "done"
    /\ Get(rawInput, "content").t = "string"
    /\ Len(Get(rawInput, "content").s) > 500
    /\ Includes(Get(rawInput, "content").s, "hate speech")
    /\ enableDeferral
    /\ confidenceThreshold = FullConfidence
    /\ Len(car.approvedActions) = 1
    /\ car.approvedActions[1].action = "respondToMessage"
    /\ car.confidence = FullConfidence
    /\ ~car.deferred

\* The executeTransaction actions among the approved actions of the result.
ApprovedExecutes ==
    {i \in 1..Len(critiqueOutput.approvedActions) :
        critiqueOutput.approvedActions[i].action = "executeTransaction"}

\* A transaction with 0 < value <= 1000 to the other listed address or to an
\* address with the 0x000 prefix has gone through the pipeline.
OtherBadRecipientRun ==
    /\ TransactionRun
    /\ pc \in {"returned", "done"}
    /\ Get(rawInput, "to").t = "string"
    /\ \/ Get(rawInput, "to") = Str("0xanotherScam")
       \/ StartsWith(Get(rawInput, "to").s, "0x000")
    /\ Get(rawInput, "value").t = "number"
    /\ Get(rawInput, "value").n > 0
    /\ Get(rawInput, "value").n <= 1000

\* C27: the pipeline never applies evaluateBlockchainAction, and the only
\* recipient it rejects is the literal 0xknownScamAddress: a transaction to
\* 0xanotherScam or to a 0x000-prefixed address with 0 < value <= 1000 has
\* executeTransaction in approvedActions, confidence 1.0 and no deferral,
\* although evaluateBlockchainAction rejects that same action.
C27_OtherBadRecipientsApproved ==
    /\ TransactionRun =>
         /\ verdict = None
         /\ (critiqueOutput # None /\ critiqueOutput.rejectedActions # <<>>) =>
               Get(rawInput, "to") = Str("0xknownScamAddress")
    /\ OtherBadRecipientRun =>
         /\ critiqueOutput # None
         /\ ApprovedExecutes # {}
         /\ \A i \in ApprovedExecutes :
              /\ ~evaluateBlockchainAction(critiqueOutput.approvedActions[i]).threw
              /\ ~evaluateBlockchainAction(critiqueOutput.approvedActions[i]).approved
         /\ critiqueOutput.confidence = FullConfidence
         /\ (pc = "done" /\ confidenceThreshold <= FullConfidence) => ~car.deferred

\* A transaction of value 1000 to 0xanotherScam has run with deferral enabled:
\* executeTransaction is approved and nothing is deferred, while
\* evaluateBlockchainAction rejects the action for its malicious recipient.
C27_AnotherScamApproved ==
    /\ OtherBadRecipientRun
    /\ pc = "done"
    /\ enableDeferral
    /\ Get(rawInput, "to") = Str("0xanotherScam")
    /\ Get(rawInput, "value") = Num(1000)
    /\ ~car.deferred
    /\ \E i \in ApprovedExecutes :
         StartsWith(evaluateBlockchainAction(critiqueOutput.approvedActions[i]).reason,
                    "Malicious recipient address: ")

=============================================================================
